---- MODULE Spec2Model ----
(***************************************************************************)
(* A model of the wikibot-backend request pipeline:                        *)
(*   app/main.py                     handle_query                          *)
(*   app/services/query_processor.py QueryProcessor                        *)
(*   app/services/wiki_search.py     WikipediaSearch                       *)
(*   app/services/content_analyzer.py ContentAnalyzer                      *)
(*   app/services/response_generator.py ResponseGenerator                  *)
(*                                                                         *)
(* Text is a sequence of atoms: an atom is a word (a maximal run of        *)
(* non-whitespace characters) or ONE whitespace character (" " or a tab).  *)
(* The regular expressions of the source only look at whole words followed *)
(* by whitespace, so matching on atoms is matching on characters.          *)
(* Real numbers are integers in thousandths (1000 is 1.0).                 *)
(***************************************************************************)
EXTENDS Integers, Sequences, FiniteSets, TLC

VARIABLES
    pc,               \* where the request (or the unit under test) stands
    query,            \* request.query
    processed_query,  \* the dict returned by QueryProcessor.process
    pos_tagged,       \* the list pos_tag returned in _extract_entities
    term_idx,         \* _perform_search: search terms processed so far
    all_results,      \* _perform_search: all_results
    unique,           \* the list _perform_search returned
    detailed_results, \* the list _get_article_content returned
    search_results,   \* the list search() returned
    analyzed_content, \* the dict analyze_content returned
    outcome,          \* what handle_query gave the caller
    ran,              \* the stages that were entered
    faults,           \* the stages in which a collaborator failed
    usable_offered,   \* the document source offered a usable page for a term
    vectorizer,       \* wiki_search.vectorizer, shared by all requests
    structured_content, \* what _structure_content computed for the blob
    calls             \* the document-source calls of _perform_search, logged
                      \* where the search is run on its own

vars == <<pc, query, processed_query, pos_tagged, term_idx, all_results, unique,
          detailed_results, search_results, analyzed_content, outcome,
          ran, faults, usable_offered, vectorizer, structured_content, calls>>

----------------------------------------------------------------------------
(* Text                                                                    *)

Whitespace == {" ", "\t"}

IsWs(a) == a \in Whitespace

\* The character of s at position i.
Ch(s, i) == SubSeq(s, i, i)

\* The strings f[lo], ..., f[hi] joined.
RECURSIVE Concat(_, _, _)
Concat(f, lo, hi) ==
    IF lo > hi THEN ""
    ELSE IF lo = hi THEN f[lo]
    ELSE LET mid == (lo + hi) \div 2
         IN Concat(f, lo, mid) \o Concat(f, mid + 1, hi)

LowerChar(c) ==
    CASE c = "A" -> "a" [] c = "B" -> "b" [] c = "C" -> "c" [] c = "D" -> "d"
      [] c = "E" -> "e" [] c = "F" -> "f" [] c = "G" -> "g" [] c = "H" -> "h"
      [] c = "I" -> "i" [] c = "J" -> "j" [] c = "K" -> "k" [] c = "L" -> "l"
      [] c = "M" -> "m" [] c = "N" -> "n" [] c = "O" -> "o" [] c = "P" -> "p"
      [] c = "Q" -> "q" [] c = "R" -> "r" [] c = "S" -> "s" [] c = "T" -> "t"
      [] c = "U" -> "u" [] c = "V" -> "v" [] c = "W" -> "w" [] c = "X" -> "x"
      [] c = "Y" -> "y" [] c = "Z" -> "z" [] OTHER -> c

\* str.lower() on a string of characters
LowerText(s) == Concat([i \in 1..Len(s) |-> LowerChar(Ch(s, i))], 1, Len(s))

\* str.lower() on one atom
Lower(a) == LowerText(a)

\* str.lower()
LowerStr(s) == [i \in DOMAIN s |-> Lower(s[i])]

RECURSIVE LStrip(_)
LStrip(s) == IF s # <<>> /\ IsWs(Head(s)) THEN LStrip(Tail(s)) ELSE s

RECURSIVE RStrip(_)
RStrip(s) ==
    IF s # <<>> /\ IsWs(s[Len(s)]) THEN RStrip(SubSeq(s, 1, Len(s) - 1)) ELSE s

\* str.strip()
Strip(s) == RStrip(LStrip(s))

\* The words of a phrase of a regular expression, joined by one space each.
RECURSIVE Phrase(_)
Phrase(ws) ==
    IF Len(ws) <= 1 THEN ws ELSE <<Head(ws), " ">> \o Phrase(Tail(ws))

\* "q starts with alt": the literal part of ^(alt)
StartsWith(q, alt) ==
    Len(q) >= Len(alt) /\ SubSeq(q, 1, Len(alt)) = alt

\* re.match(r"^(alt)\s+", q) for one alternative
MatchAlt(q, alt) ==
    /\ StartsWith(q, alt)
    /\ Len(q) > Len(alt)
    /\ IsWs(q[Len(alt) + 1])

\* re.match(r"^(a1|a2|...)\s+", q)
MatchPattern(q, alts) == \E i \in DOMAIN alts : MatchAlt(q, alts[i])

----------------------------------------------------------------------------
(* QueryProcessor                                                          *)

QuestionTypes == {"DEFINITION", "FACTUAL", "PROCESS", "EXPLANATION", "COMPARISON"}

\* The patterns dict of _determine_question_type, in its insertion order.
Patterns == <<
    [q_type |-> "DEFINITION",
     alts |-> <<Phrase(<<"what", "is">>), <<"define">>, <<"explain">>,
                Phrase(<<"tell", "me", "about">>), <<"describe">>,
                Phrase(<<"what", "are">>), Phrase(<<"what", "does">>)>>],
    [q_type |-> "FACTUAL",
     alts |-> <<<<"what">>, <<"when">>, <<"where">>, <<"who">>, <<"how">>,
                <<"why">>>>],
    [q_type |-> "PROCESS",
     alts |-> <<Phrase(<<"how", "to">>), Phrase(<<"how", "do">>),
                Phrase(<<"steps", "to">>), Phrase(<<"process", "of">>),
                Phrase(<<"how", "does">>), Phrase(<<"how", "can">>)>>],
    [q_type |-> "EXPLANATION",
     alts |-> <<<<"why">>, Phrase(<<"explain", "why">>),
                Phrase(<<"reason", "for">>), Phrase(<<"what", "causes">>),
                Phrase(<<"what", "makes">>), Phrase(<<"let", "me", "explain">>),
                <<"explain">>>>],
    [q_type |-> "COMPARISON",
     alts |-> <<<<"compare">>, Phrase(<<"difference", "between">>),
                <<"versus">>, <<"vs">>, Phrase(<<"similarities", "between">>),
                Phrase(<<"differences", "between">>)>>] >>

\* The loop "for q_type, pattern in patterns.items()" from entry i on.
RECURSIVE FirstMatch(_, _, _)
FirstMatch(q, pats, i) ==
    IF i > Len(pats) THEN "EXPLANATION"
    ELSE IF MatchPattern(q, pats[i].alts) THEN pats[i].q_type
    ELSE FirstMatch(q, pats, i + 1)

\* A wrong ordering of the table: PROCESS and EXPLANATION tested before FACTUAL.
DetermineQuestionTypeReordered(q) ==
    FirstMatch(LowerStr(q),
               <<Patterns[1], Patterns[3], Patterns[4], Patterns[2], Patterns[5]>>,
               1)

\* QueryProcessor._determine_question_type
DetermineQuestionType(q) == FirstMatch(LowerStr(q), Patterns, 1)

\* The alternatives of the prefix that _generate_alternative_phrasings removes.
BasePrefixes == <<
    Phrase(<<"what", "is">>), <<"define">>, <<"explain">>,
    Phrase(<<"tell", "me", "about">>), Phrase(<<"how", "to">>),
    Phrase(<<"how", "do">>), Phrase(<<"steps", "to">>),
    Phrase(<<"process", "of">>), <<"why">>, Phrase(<<"explain", "why">>),
    Phrase(<<"reason", "for">>), <<"compare">>,
    Phrase(<<"difference", "between">>), <<"versus">>, <<"vs">>,
    Phrase(<<"let", "me", "explain">>) >>

\* re.sub(r"^(a1|a2|...)\s+", "", q): the first alternative, in order, that is
\* followed by whitespace is removed together with the whole whitespace run.
RECURSIVE SubPrefix(_, _, _)
SubPrefix(q, alts, i) ==
    IF i > Len(alts) THEN q
    ELSE IF MatchAlt(q, alts[i])
         THEN LStrip(SubSeq(q, Len(alts[i]) + 1, Len(q)))
         ELSE SubPrefix(q, alts, i + 1)

\* f"{before} {base_query}{after}"
Fill(before, base, after) == Phrase(before) \o <<" ">> \o base \o after

\* The five-way if/elif of _generate_alternative_phrasings with its last
\* branch one phrasing short.
GenerateAlternativePhrasingsShort(q, question_type) ==
    LET base == SubPrefix(q, BasePrefixes, 1) IN
    IF question_type = "COMPARISON"
    THEN <<Fill(<<"compare">>, base, <<>>),
           Fill(<<"differences", "between">>, base, <<>>),
           Fill(<<"similarities", "between">>, base, <<>>),
           Fill(<<"how", "does">>, base, <<" ", "compare">>)>>
    ELSE <<Fill(<<"explain">>, base, <<>>),
           Fill(<<"tell", "me", "about">>, base, <<>>),
           Fill(<<"what", "is">>, base, <<>>),
           Fill(<<"describe">>, base, <<>>),
           Fill(<<"what", "are", "the", "key", "aspects", "of">>, base, <<>>)>>

\* QueryProcessor._generate_alternative_phrasings
GenerateAlternativePhrasings(q, question_type) ==
    LET base == SubPrefix(q, BasePrefixes, 1) IN
    CASE question_type = "DEFINITION" ->
           <<Fill(<<"what", "is">>, base, <<>>),
             Fill(<<"define">>, base, <<>>),
             Fill(<<"explain">>, base, <<>>),
             Fill(<<"describe">>, base, <<>>),
             Fill(<<"what", "are", "the", "characteristics", "of">>, base, <<>>)>>
      [] question_type = "FACTUAL" ->
           <<Fill(<<"what", "is">>, base, <<>>),
             Fill(<<"information", "about">>, base, <<>>),
             Fill(<<"details", "about">>, base, <<>>),
             Fill(<<"tell", "me", "about">>, base, <<>>),
             Fill(<<"what", "are", "the", "facts", "about">>, base, <<>>)>>
      [] question_type = "PROCESS" ->
           <<Fill(<<"how", "to">>, base, <<>>),
             Fill(<<"steps", "to">>, base, <<>>),
             Fill(<<"process", "of">>, base, <<>>),
             Fill(<<"how", "does">>, base, <<" ", "work">>),
             Fill(<<"what", "is", "the", "process", "of">>, base, <<>>)>>
      [] question_type = "EXPLANATION" ->
           <<Fill(<<"explain">>, base, <<>>),
             Fill(<<"tell", "me", "about">>, base, <<>>),
             Fill(<<"what", "is">>, base, <<>>),
             Fill(<<"describe">>, base, <<>>),
             Fill(<<"what", "are", "the", "key", "aspects", "of">>, base, <<>>)>>
      [] question_type = "COMPARISON" ->
           <<Fill(<<"compare">>, base, <<>>),
             Fill(<<"differences", "between">>, base, <<>>),
             Fill(<<"similarities", "between">>, base, <<>>),
             Fill(<<"how", "does">>, base, <<" ", "compare">>),
             Fill(<<"what", "are", "the", "differences", "in">>, base, <<>>)>>
      [] OTHER -> <<>>

\* The english stop words among the words of the input alphabet.
StopWords == {"what", "is", "are", "does", "about", "when", "where", "who",
              "how", "why", "to", "do", "can", "of", "for", "me", "between",
              "the"}

\* tag.startswith('NN')
IsNounTag(tag) == tag \in {"NN", "NNS", "NNP", "NNPS"}

\* word_tokenize on text without punctuation: its words.
RECURSIVE Tokenize(_)
Tokenize(s) ==
    IF s = <<>> THEN <<>>
    ELSE IF IsWs(Head(s)) THEN Tokenize(Tail(s))
    ELSE <<Head(s)>> \o Tokenize(Tail(s))

\* The tags the part-of-speech tagger may give a word.
TagOptions(w) ==
    CASE w \in {"abacus", "whatever", "isotope"} -> {"NN"}
      [] w \in {"steps", "differences", "similarities"} -> {"NNS"}
      [] w \in {"process", "compare"} -> {"NN", "VB"}
      [] w \in {"vs"} -> {"NN", "IN"}
      [] w \in {"cat", "mat", "can", "the"} -> {"NN", "XX"}
      [] w \in {"ox"} -> {"NN"}
      [] OTHER -> {"XX"}

\* pos_tag(tokens): every tagging the tagger may return.
Taggings(tokens) ==
    {[i \in DOMAIN tokens |-> [word |-> tokens[i], tag |-> t[i]]] :
        t \in {f \in [DOMAIN tokens -> {"NN", "NNS", "VB", "IN", "XX"}] :
                 \A i \in DOMAIN tokens : f[i] \in TagOptions(tokens[i])}}

\* The loop with a word appended only when it is not in entities yet.
RECURSIVE ExtractEntitiesUnique(_)
ExtractEntitiesUnique(tagged) ==
    IF tagged = <<>> THEN <<>>
    ELSE LET front == ExtractEntitiesUnique(SubSeq(tagged, 1, Len(tagged) - 1))
             h == tagged[Len(tagged)]
         IN front \o (IF /\ IsNounTag(h.tag) /\ h.word \notin StopWords
                         /\ Len(h.word) > 2
                         /\ h.word \notin {front[i] : i \in DOMAIN front}
                      THEN <<h.word>> ELSE <<>>)

\* The loop of QueryProcessor._extract_entities over the tagged tokens.
RECURSIVE ExtractEntities(_)
ExtractEntities(tagged) ==
    IF tagged = <<>> THEN <<>>
    ELSE LET h == Head(tagged) IN
         (IF IsNounTag(h.tag) /\ h.word \notin StopWords /\ Len(h.word) > 2
          THEN <<h.word>> ELSE <<>>) \o ExtractEntities(Tail(tagged))

\* QueryProcessor.response_templates
QueryTemplates ==
    [t \in {"DEFINITION", "FACTUAL", "PROCESS", "EXPLANATION", "COMPARISON"} |->
        CASE t = "DEFINITION" ->
               [intro |-> Phrase(<<"Here's", "what", "I", "found", "about",
                                   "{entity}:">>),
                key_points |-> Phrase(<<"Key", "points:">>),
                context |-> Phrase(<<"Additional", "context:">>)]
          [] t = "FACTUAL" ->
               [intro |-> Phrase(<<"Here's", "what", "I", "found:">>),
                key_points |-> Phrase(<<"Key", "points:">>),
                context |-> Phrase(<<"Additional", "information:">>)]
          [] t = "PROCESS" ->
               [intro |-> Phrase(<<"Here's", "how", "it", "works:">>),
                key_points |-> Phrase(<<"Key", "steps:">>),
                context |-> Phrase(<<"Important", "notes:">>)]
          [] t = "EXPLANATION" ->
               [intro |-> Phrase(<<"Here's", "what", "I", "found", "about",
                                   "{entity}:">>),
                key_points |-> Phrase(<<"Key", "points:">>),
                context |-> Phrase(<<"Additional", "context:">>)]
          [] OTHER ->
               [intro |-> Phrase(<<"Here's", "the", "comparison:">>),
                key_points |-> Phrase(<<"Key", "differences:">>),
                context |-> Phrase(<<"Additional", "context:">>)]]

\* QueryProcessor.process, given the tagger's reply for the cleaned query.
Process(q, tagged) ==
    LET cleaned_query == Strip(LowerStr(q))
        question_type == DetermineQuestionType(cleaned_query)
    IN [original_query |-> q,
        cleaned_query |-> cleaned_query,
        question_type |-> question_type,
        entities |-> ExtractEntities(tagged),
        alternative_phrasings |->
            GenerateAlternativePhrasings(cleaned_query, question_type),
        response_template |-> QueryTemplates[question_type]]

\* processed_query before process has returned.
NoQuery ==
    [original_query |-> <<>>, cleaned_query |-> <<>>, question_type |-> "NONE",
     entities |-> <<>>, alternative_phrasings |-> <<>>,
     response_template |->
         [intro |-> <<>>, key_points |-> <<>>, context |-> <<>>]]

----------------------------------------------------------------------------
(* WikipediaSearch: the document source and the candidates                 *)

\* "srlimit": 5
SrLimit == 5

\* len(search_variations)
NumVariations == 4

\* A page as the document source answers for it: "ok" (it exists and is no
\* disambiguation page), "missing", "disambiguation", or "raise" (the lookup
\* fails).
Pg(t, st) == [title |-> t, st |-> st]

\* page.exists() alone.
PageUsableUnchecked(p) == p.st \in {"ok", "disambiguation"}

\* page.exists() and not self._is_disambiguation(page)
PageUsable(p) == p.st = "ok"

PageId(t) ==
    CASE t = "A" -> 1 [] t = "B" -> 2 [] t = "C" -> 3 [] t = "D" -> 4
      [] OTHER -> 9

\* {"title": page.title, "pageid": page.pageid, "relevance": r}
Cand(t, r) == [title |-> t, pageid |-> PageId(t), relevance |-> r]

\* A call to the document source: wiki.page(title) with exists() and the
\* disambiguation test ("page"), or the keyword search ("search"). variant is
\* the position in search_variations (0 for the lookup of the term itself),
\* hit the position of the hit that is looked up (0 when none), title the
\* title of the page that was found, st what the document source answered.
PageCall(variant, hit, page) ==
    [op |-> "page", variant |-> variant, hit |-> hit, srlimit |-> 0,
     title |-> page.title, st |-> page.st]

SearchCall(variant, st) ==
    [op |-> "search", variant |-> variant, hit |-> 0, srlimit |-> SrLimit,
     title |-> "", st |-> st]

\* The loop "for idx, result in enumerate(data['query']['search'])" from the
\* hit at position i (idx = i - 1) of variation v on: what it appends, whether
\* a lookup raised, and the calls it made.
RECURSIVE HitLoop(_, _, _)
HitLoop(hits, i, v) ==
    IF i > Len(hits) THEN [added |-> <<>>, raised |-> FALSE, calls |-> <<>>]
    ELSE IF hits[i].st = "raise"
         THEN [added |-> <<>>, raised |-> TRUE,
               calls |-> <<PageCall(v, i, hits[i])>>]
    ELSE LET rest == HitLoop(hits, i + 1, v)
             here == IF PageUsable(hits[i])
                     THEN <<Cand(hits[i].title, 900 - (i - 1) * 100)>>
                     ELSE <<>>
         IN [added |-> here \o rest.added, raised |-> rest.raised,
             calls |-> <<PageCall(v, i, hits[i])>> \o rest.calls]

\* The loop "for search_term in search_variations" from variation v on.
\* A reply is "raise" (requests.get or response.json() fails), "nokey" (no
\* "query"/"search" key in the reply) or "ok" with its hits.
RECURSIVE VariationLoop(_, _)
VariationLoop(variants, v) ==
    IF v > NumVariations
    THEN [added |-> <<>>, raised |-> FALSE, calls |-> <<>>]
    ELSE IF variants[v].st = "raise"
         THEN [added |-> <<>>, raised |-> TRUE,
               calls |-> <<SearchCall(v, "raise")>>]
    ELSE IF variants[v].st = "nokey"
         THEN LET rest == VariationLoop(variants, v + 1) IN
              [rest EXCEPT !.calls = <<SearchCall(v, "nokey")>> \o @]
    ELSE LET h == HitLoop(variants[v].hits, 1, v) IN
         IF h.raised
         THEN [h EXCEPT !.calls = <<SearchCall(v, "ok")>> \o @]
         ELSE LET rest == VariationLoop(variants, v + 1) IN
              [added |-> h.added \o rest.added, raised |-> rest.raised,
               calls |-> <<SearchCall(v, "ok")>> \o h.calls \o rest.calls]

\* A reply that offers no usable page: neither the direct lookup nor any hit
\* of any variation.
OffersNothing(reply) ==
    /\ reply.direct.st # "ok"
    /\ \A v \in DOMAIN reply.variants :
          \A i \in DOMAIN reply.variants[v].hits :
             reply.variants[v].hits[i].st # "ok"

\* One iteration of "for term in search_terms" with the fallback also run
\* after a direct hit.
SearchOneTermNoContinue(reply) ==
    IF reply.direct.st = "raise"
    THEN [added |-> <<>>, raised |-> TRUE, calls |-> <<PageCall(0, 0, reply.direct)>>]
    ELSE LET d == IF PageUsable(reply.direct)
                  THEN <<Cand(reply.direct.title, 1000)>> ELSE <<>>
             f == VariationLoop(reply.variants, 1)
         IN [added |-> d \o f.added, raised |-> f.raised,
             calls |-> <<PageCall(0, 0, reply.direct)>> \o f.calls]

\* One iteration in which a failure discards what the term had collected.
SearchOneTermAllOrNothing(reply) ==
    LET got == IF reply.direct.st = "raise" \/ PageUsable(reply.direct)
               THEN [added |-> <<>>, raised |-> reply.direct.st = "raise",
                     calls |-> <<PageCall(0, 0, reply.direct)>>]
               ELSE LET f == VariationLoop(reply.variants, 1) IN
                    [f EXCEPT !.calls = <<PageCall(0, 0, reply.direct)>> \o @]
    IN IF got.raised THEN [got EXCEPT !.added = <<>>]
       ELSE IF PageUsable(reply.direct)
            THEN [got EXCEPT !.added = <<Cand(reply.direct.title, 1000)>>]
            ELSE got

\* One iteration of "for term in search_terms" in _perform_search: the body of
\* its try, given the document source's replies for this term.
SearchOneTerm(reply) ==
    IF reply.direct.st = "raise"
    THEN [added |-> <<>>, raised |-> TRUE, calls |-> <<PageCall(0, 0, reply.direct)>>]
    ELSE IF PageUsable(reply.direct)
         THEN [added |-> <<Cand(reply.direct.title, 1000)>>, raised |-> FALSE,
               calls |-> <<PageCall(0, 0, reply.direct)>>]
         ELSE LET f == VariationLoop(reply.variants, 1) IN
              [f EXCEPT !.calls = <<PageCall(0, 0, reply.direct)>> \o @]

\* The calls of one term, each with the position of the term in search_terms
\* and the term.
CallsFor(k, term, made) ==
    [i \in DOMAIN made |->
        [term |-> k, text |-> term, op |-> made[i].op,
         variant |-> made[i].variant, hit |-> made[i].hit,
         srlimit |-> made[i].srlimit, title |-> made[i].title,
         st |-> made[i].st]]

\* sorted(s, key=...) with the larger s[k] first; equal keys keep their order.
RECURSIVE InsertDesc(_, _, _)
InsertDesc(x, s, k) ==
    IF s = <<>> THEN <<x>>
    ELSE IF Head(s)[k] >= x[k] THEN <<Head(s)>> \o InsertDesc(x, Tail(s), k)
    ELSE <<x>> \o s

RECURSIVE SortDescFrom(_, _, _)
SortDescFrom(s, acc, k) ==
    IF s = <<>> THEN acc
    ELSE SortDescFrom(Tail(s), InsertDesc(Head(s), acc, k), k)

SortDesc(s, k) == SortDescFrom(s, <<>>, k)

\* The loop of _deduplicate_and_sort over the sorted list.
RECURSIVE KeepFirst(_, _)
KeepFirst(s, seen) ==
    IF s = <<>> THEN <<>>
    ELSE IF Head(s).title \in seen THEN KeepFirst(Tail(s), seen)
    ELSE <<Head(s)>> \o KeepFirst(Tail(s), seen \cup {Head(s).title})

\* Deduplication in arrival order, sorted afterwards.
DeduplicateThenSort(results) == SortDesc(KeepFirst(results, {}), "relevance")

\* WikipediaSearch._deduplicate_and_sort
DeduplicateAndSort(results) == KeepFirst(SortDesc(results, "relevance"), {})

\* The whole list instead of s[:n].
TakeAll(s, n) == s

\* s[:n]
Take(s, n) == SubSeq(s, 1, IF Len(s) < n THEN Len(s) ELSE n)

----------------------------------------------------------------------------
(* WikipediaSearch: fetching and ranking                                   *)

(* A fetched text is kept by what the code reads of it:                    *)
(*   empty  it is the empty string                                         *)
(*   words  len(content.split())                                           *)
(*   sim    the cosine similarity the vectorizer gives for it and the      *)
(*          query, in thousandths                                          *)
(*   hits   the number of distinct query terms that occur in it            *)
(*   vec    "raise" when fit_transform fails on it (empty vocabulary)      *)
(*   form   "full" as fetched, "excerpt" once _extract_relevant_content    *)
(*          has replaced it                                                *)
(*   paragraphs  its pieces between blank lines, each with the similarity  *)
(*          the vectorizer gives for it and the query and with its         *)
(*          sentences (the pieces between ".", "!" and "?"), each with its *)
(*          number of words and its similarity; every paragraph ends with  *)
(*          a period                                                       *)
(*   excerpt  what replaced the text: "paragraphs" or "sentences" with the *)
(*          ids of the units that were joined, in their order              *)

\* No excerpt was taken.
NoExcerpt == [kind |-> "none", units |-> <<>>]

Sentence(id, words, sim) == [id |-> id, words |-> words, sim |-> sim]

Paragraph(id, sim, sentences) ==
    [id |-> id, sim |-> sim, sentences |-> sentences]

\* A text of one paragraph that is one sentence; whitespace has no paragraph.
Text(words, sim, hits, vec) ==
    [empty |-> FALSE, words |-> words, sim |-> sim, hits |-> hits,
     vec |-> vec, form |-> "full",
     paragraphs |-> IF words = 0 THEN <<>>
                    ELSE <<Paragraph(1, sim, <<Sentence(1, words, sim)>>)>>,
     excerpt |-> NoExcerpt]

\* ""
EmptyText ==
    [empty |-> TRUE, words |-> 0, sim |-> 0, hits |-> 0, vec |-> "ok",
     form |-> "full", paragraphs |-> <<>>, excerpt |-> NoExcerpt]

\* The loop of _get_article_content: replies[i] is the document source's
\* answer for results[i].
RECURSIVE GetArticleContent(_, _)
GetArticleContent(results, replies) ==
    IF results = <<>> THEN <<>>
    ELSE LET r == Head(results)
             a == Head(replies)
             rest == GetArticleContent(Tail(results), Tail(replies))
         IN IF a.st = "ok" /\ ~a.content.empty
            THEN <<[title |-> r.title, pageid |-> r.pageid,
                    relevance |-> r.relevance, content |-> a.content,
                    url |-> a.url]>> \o rest
            ELSE rest

\* 1.0 and the threshold 0.3 of a relevance, which is kept in ten-thousandths:
\* 0.4 * sim + 0.3 * length_factor + 0.3 * term_boost with its three terms in
\* thousandths is (4 * sim + 3 * length_factor + 3 * term_boost) / 10000.
ScoreOne == 10000

Threshold == 3000

Min(a, b) == IF a < b THEN a ELSE b

(* self.vectorizer is kept by what decides the matrix it returns: the      *)
(* documents its vocabulary and idf weights were last learnt from.         *)

\* TfidfVectorizer(stop_words='english') before any fit.
Unfitted == [fitted_on |-> <<>>]

\* A vectorizer that keeps what it learnt before and adds the new documents.
FitTransformAccumulating(vec, docs) == [fitted_on |-> vec.fitted_on \o docs]

\* self.vectorizer.fit_transform(docs): vocabulary and idf weights are learnt
\* anew from docs, whatever was fitted before; the state it leaves decides the
\* matrix it returns.
FitTransform(vec, docs) == [fitted_on |-> docs]

\* cosine_similarity(tfidf_matrix[0:1], tfidf_matrix[1:2])[0][0]: content.sim
\* is its value under the weights learnt from the query and this content
\* alone; under weights learnt from other documents too it is another value
\* (none of the similarity is left).
CosineSimilarity(tfidf_matrix, query_text, content) ==
    IF tfidf_matrix.fitted_on = <<query_text, content>> THEN content.sim ELSE 0

\* _calculate_relevance without the term boost's constant 1.0.
CalculateRelevanceNoBase(vec, query_text, content) ==
    IF content.vec = "raise" THEN [relevance |-> 0, vectorizer |-> vec]
    ELSE LET tfidf_matrix == FitTransform(vec, <<query_text, content>>)
             similarity == CosineSimilarity(tfidf_matrix, query_text, content)
             length_factor == Min(1000, content.words * 5)
             term_boost == content.hits * 200
         IN [relevance |->
                 Min(ScoreOne,
                     4 * similarity + 3 * length_factor + 3 * term_boost),
             vectorizer |-> tfidf_matrix]

\* _calculate_relevance without its min(1.0, ...).
CalculateRelevanceUnclamped(vec, query_text, content) ==
    IF content.vec = "raise" THEN [relevance |-> 0, vectorizer |-> vec]
    ELSE LET tfidf_matrix == FitTransform(vec, <<query_text, content>>)
             similarity == CosineSimilarity(tfidf_matrix, query_text, content)
             length_factor == Min(1000, content.words * 5)
             term_boost == 1000 + content.hits * 200
         IN [relevance |-> 4 * similarity + 3 * length_factor + 3 * term_boost,
             vectorizer |-> tfidf_matrix]

\* WikipediaSearch._calculate_relevance: the score, and the vectorizer as the
\* call leaves it (a fit that raises leaves it as it was).
CalculateRelevance(vec, query_text, content) ==
    IF content.vec = "raise" THEN [relevance |-> 0, vectorizer |-> vec]
    ELSE LET tfidf_matrix == FitTransform(vec, <<query_text, content>>)
             similarity == CosineSimilarity(tfidf_matrix, query_text, content)
             length_factor == Min(1000, content.words * 5)
             term_boost == 1000 + content.hits * 200
         IN [relevance |->
                 Min(ScoreOne,
                     4 * similarity + 3 * length_factor + 3 * term_boost),
             vectorizer |-> tfidf_matrix]

\* The paragraphs (or sentences) of a text, as one document of a corpus.
Units(content) == [content EXCEPT !.form = "units"]

\* The sentences of a text that were ranked, as one document of a corpus.
SentenceUnits(content) == [content EXCEPT !.form = "sentences"]

Reverse(s) == [i \in 1..Len(s) |-> s[Len(s) + 1 - i]]

\* [units[i] for i in np.argsort(similarities)[-n:][::-1]]: the n units with
\* the greatest similarity, the greatest first (of equal ones the later).
TopUnits(units, n) == Take(SortDesc(Reverse(units), "sim"), n)

\* len(p.split()) of a paragraph.
RECURSIVE WordsOf(_)
WordsOf(sentences) ==
    IF sentences = <<>> THEN 0
    ELSE Head(sentences).words + WordsOf(Tail(sentences))

\* sum(len(p.split()) for p in top_paragraphs)
RECURSIVE WordsOfAll(_)
WordsOfAll(paragraphs) ==
    IF paragraphs = <<>> THEN 0
    ELSE WordsOf(Head(paragraphs).sentences) + WordsOfAll(Tail(paragraphs))

\* re.split(r'[.!?]+', content): the sentences of all paragraphs.
RECURSIVE SentencesOf(_)
SentencesOf(paragraphs) ==
    IF paragraphs = <<>> THEN <<>>
    ELSE Head(paragraphs).sentences \o SentencesOf(Tail(paragraphs))

Ids(units) == [i \in DOMAIN units |-> units[i].id]

\* _extract_relevant_content without the sentence-level extraction.
ExtractRelevantContentParagraphs(vec, query_text, content) ==
    LET paragraphs == SelectSeq(content.paragraphs,
                                LAMBDA p : WordsOf(p.sentences) > 0)
        tfidf_matrix == FitTransform(vec, <<query_text, Units(content)>>)
    IN IF paragraphs = <<>> \/ content.vec = "raise"
       THEN [content |-> content, vectorizer |-> vec]
       ELSE [content |->
                 [content EXCEPT
                    !.form = IF tfidf_matrix.fitted_on
                                   = <<query_text, Units(content)>>
                             THEN "excerpt" ELSE "other_excerpt",
                    !.excerpt = [kind |-> "paragraphs",
                                 units |-> Ids(TopUnits(paragraphs, 3))]],
             vectorizer |-> tfidf_matrix]

\* WikipediaSearch._extract_relevant_content: the vectorizer is fitted on the
\* query and the paragraphs of the text (and again on the query and the
\* sentences), and the units that the matrix ranks first replace the fetched
\* text. A text without a paragraph is returned as it is, and so is one on
\* which the vectorizer fails, be it on the paragraphs or on the sentences
\* (the except of lines 226-228 returns the content it was given).
ExtractRelevantContent(vec, query_text, content) ==
    LET paragraphs == SelectSeq(content.paragraphs,
                                LAMBDA p : WordsOf(p.sentences) > 0)
        tfidf_matrix == FitTransform(vec, <<query_text, Units(content)>>)
        fitted == tfidf_matrix.fitted_on = <<query_text, Units(content)>>
        top_paragraphs == TopUnits(paragraphs, 3)
        sentences == SelectSeq(SentencesOf(content.paragraphs),
                               LAMBDA sentence : sentence.words > 5)
    IN IF paragraphs = <<>> \/ content.vec = "raise"
       THEN [content |-> content, vectorizer |-> vec]
       ELSE IF /\ WordsOfAll(top_paragraphs) < 100 /\ sentences # <<>>
               /\ content.vec = "raise_sentences"
       THEN [content |-> content, vectorizer |-> tfidf_matrix]
       ELSE IF WordsOfAll(top_paragraphs) < 100 /\ sentences # <<>>
       THEN LET sentence_matrix ==
                    FitTransform(tfidf_matrix,
                                 <<query_text, SentenceUnits(content)>>)
            IN [content |->
                    [content EXCEPT
                       !.form = IF fitted
                                   /\ sentence_matrix.fitted_on
                                        = <<query_text, SentenceUnits(content)>>
                                THEN "excerpt" ELSE "other_excerpt",
                       !.excerpt = [kind |-> "sentences",
                                    units |-> Ids(TopUnits(sentences, 5))]],
                vectorizer |-> sentence_matrix]
       ELSE [content |->
                 [content EXCEPT
                    !.form = IF fitted THEN "excerpt" ELSE "other_excerpt",
                    !.excerpt = [kind |-> "paragraphs",
                                 units |-> Ids(top_paragraphs)]],
             vectorizer |-> tfidf_matrix]

\* The loop of _process_results: the records it appends, and the vectorizer
\* as the loop leaves it.
RECURSIVE ScoreLoop(_, _, _)
ScoreLoop(vec, query_text, results) ==
    IF results = <<>> THEN [out |-> <<>>, vectorizer |-> vec]
    ELSE LET r == Head(results)
             scored == CalculateRelevance(vec, query_text, r.content)
             relevance == scored.relevance
         IN IF relevance >= Threshold
            THEN LET excerpt == ExtractRelevantContent(scored.vectorizer,
                                                       query_text, r.content)
                     rest == ScoreLoop(excerpt.vectorizer, query_text,
                                       Tail(results))
                 IN [out |-> <<[title |-> r.title, pageid |-> r.pageid,
                                relevance |-> r.relevance,
                                content |-> excerpt.content,
                                url |-> r.url, confidence |-> relevance]>>
                               \o rest.out,
                     vectorizer |-> rest.vectorizer]
            ELSE ScoreLoop(scored.vectorizer, query_text, Tail(results))

\* The records in the order in which the loop appended them.
ProcessResultsUnsorted(vec, query_text, results) ==
    LET looped == ScoreLoop(vec, query_text, results) IN
    [out |-> looped.out, vectorizer |-> looped.vectorizer]

\* WikipediaSearch._process_results
ProcessResults(vec, query_text, results) ==
    LET looped == ScoreLoop(vec, query_text, results) IN
    [out |-> SortDesc(looped.out, "confidence"),
     vectorizer |-> looped.vectorizer]

----------------------------------------------------------------------------
(* ContentAnalyzer and ResponseGenerator                                   *)

(* main_content is kept by which text it is and by len(main_content.split()). *)

\* "I couldn't find any relevant information about this topic."
NoInfo ==
    [main_content |-> [kind |-> "no_info", words |-> 9], confidence |-> 0,
     sources |-> <<>>]

\* "I encountered an error while processing the information."
AnalysisError ==
    [main_content |-> [kind |-> "analysis_error", words |-> 8],
     confidence |-> 0, sources |-> <<>>]

\* analyzed_content before analyze_content has returned.
NoAnalysis ==
    [main_content |-> [kind |-> "none", words |-> 0], confidence |-> 0,
     sources |-> <<>>]

\* The documents built from the search results that have content.
RECURSIVE Documents(_)
Documents(results) ==
    IF results = <<>> THEN <<>>
    ELSE (IF Head(results).content.empty THEN <<>>
          ELSE <<[page_content |-> Head(results).content,
                  title |-> Head(results).title, url |-> Head(results).url]>>)
         \o Documents(Tail(results))

\* A "title - url" string for every document.
RECURSIVE SourcesUnfiltered(_)
SourcesUnfiltered(docs) ==
    IF docs = <<>> THEN <<>>
    ELSE <<Head(docs).title \o " - " \o Head(docs).url>>
             \o SourcesUnfiltered(Tail(docs))

\* The "title - url" strings of the documents that have both.
RECURSIVE Sources(_)
Sources(docs) ==
    IF docs = <<>> THEN <<>>
    ELSE (IF Head(docs).title # "" /\ Head(docs).url # ""
          THEN <<Head(docs).title \o " - " \o Head(docs).url>> ELSE <<>>)
         \o Sources(Tail(docs))

\* The error result keeping the sources of the documents.
AnalyzeContentKeepsSources(results, pq, rendered_words, fails) ==
    IF fails
    THEN [AnalysisError EXCEPT !.sources = Sources(Documents(results)),
                               !.confidence = Min(1000, rendered_words * 2)]
    ELSE [main_content |-> [kind |-> "structured", words |-> rendered_words],
          confidence |-> Min(1000, rendered_words * 2),
          sources |-> Sources(Documents(results))]

\* The confidence without its min(1.0, ...).
AnalyzeContentUnclamped(results, pq, rendered_words, fails) ==
    IF fails THEN AnalysisError
    ELSE [main_content |-> [kind |-> "structured", words |-> rendered_words],
          confidence |-> rendered_words * 2,
          sources |-> Sources(Documents(results))]

\* analyze_content and ContentAnalyzer.analyze_content: rendered_words is
\* len(structured_content.split()), fails says that a step inside raised.
\* word_count / 500 in thousandths is word_count * 2.
AnalyzeContent(results, pq, rendered_words, fails) ==
    LET documents == Documents(results) IN
    IF fails THEN AnalysisError
    ELSE IF results = <<>> \/ documents = <<>> THEN NoInfo
    ELSE LET word_count == rendered_words
             confidence == Min(1000, word_count * 2)
         IN [main_content |->
                 IF rendered_words = 0
                 THEN [kind |-> "raw_fallback", words |-> 0]
                 ELSE [kind |-> "structured", words |-> rendered_words],
             confidence |-> confidence,
             sources |-> Sources(documents)]

NoResponse == [kind |-> "none", topic |-> <<>>, body |-> "none", text |-> <<>>]

\* ResponseGenerator.response_templates: "{intro}\n\n{main_content}" five times.
ResponseTemplates ==
    [t \in {"DEFINITION", "FACTUAL", "PROCESS", "EXPLANATION", "COMPARISON"} |->
        <<"{intro}", "\n\n", "{main_content}">>]

\* f"Let me explain {topic}:"
LetMeExplain(topic) ==
    <<"Let", " ", "me", " ", "explain", " ">> \o topic \o <<":">>

\* template.format(intro=intro, main_content=content)
Format(template, intro, main_content) ==
    [i \in DOMAIN template |->
        IF template[i] = "{intro}" THEN intro
        ELSE IF template[i] = "{main_content}" THEN main_content
        ELSE template[i]]

\* generate with the intro of the question type's template in processed_query.
GenerateResponseByType(analyzed, pq, fails) ==
    IF fails
    THEN [response |-> [kind |-> "apology_error", topic |-> <<>>,
                        body |-> "none", text |-> <<>>],
          confidence |-> 0, sources |-> <<>>]
    ELSE IF analyzed.main_content.kind = "none"
    THEN [response |-> [kind |-> "apology_not_enough", topic |-> <<>>,
                        body |-> "none", text |-> <<>>],
          confidence |-> 0, sources |-> <<>>]
    ELSE [response |-> [kind |-> "explained", topic |-> pq.cleaned_query,
                        body |-> analyzed.main_content.kind,
                        text |-> Format(ResponseTemplates[pq.question_type],
                                        pq.response_template.intro,
                                        analyzed.main_content.kind)],
          confidence |-> analyzed.confidence,
          sources |-> analyzed.sources]

\* ResponseGenerator.generate: the dict it returns; fails says that a step
\* inside raised.
GenerateResponse(analyzed, pq, fails) ==
    IF fails
    THEN [response |-> [kind |-> "apology_error", topic |-> <<>>,
                        body |-> "none", text |-> <<>>],
          confidence |-> 0, sources |-> <<>>]
    ELSE IF analyzed.main_content.kind = "none"
    THEN [response |-> [kind |-> "apology_not_enough", topic |-> <<>>,
                        body |-> "none", text |-> <<>>],
          confidence |-> 0, sources |-> <<>>]
    ELSE LET content == analyzed.main_content.kind
             query_type == pq.question_type
             topic == pq.cleaned_query
             template == IF query_type \in DOMAIN ResponseTemplates
                         THEN ResponseTemplates[query_type]
                         ELSE ResponseTemplates["EXPLANATION"]
             intro == LetMeExplain(topic)
         IN [response |-> [kind |-> "explained", topic |-> topic,
                           body |-> content,
                           text |-> Format(template, intro, content)],
             confidence |-> analyzed.confidence,
             sources |-> analyzed.sources]

----------------------------------------------------------------------------
(* ContentAnalyzer: structuring, on the characters of the text             *)

\* s[n:]
Drop(s, n) == SubSeq(s, n + 1, Len(s))

\* k in s
In(k, s) ==
    \E i \in 1..(Len(s) - Len(k) + 1) : SubSeq(s, i, i + Len(k) - 1) = k

\* s.endswith(k)
StrEndsWith(s, k) ==
    Len(s) >= Len(k) /\ SubSeq(s, Len(s) - Len(k) + 1, Len(s)) = k

\* The least and the greatest number of a set that is not empty.
Least(S) == CHOOSE i \in S : \A j \in S : i <= j

Greatest(S) == CHOOSE i \in S : \A j \in S : j <= i

\* The k-th number of a set of numbers.
Kth(S, k) == CHOOSE i \in S : Cardinality({j \in S : j < i}) = k - 1

\* \s
Spaces == {" ", "\t", "\n"}

Digits == {"0", "1", "2", "3", "4", "5", "6", "7", "8", "9"}

\* str.strip(chars)
StripChars(s, chars) ==
    LET kept == {i \in 1..Len(s) : Ch(s, i) \notin chars}
    IN IF kept = {} THEN "" ELSE SubSeq(s, Least(kept), Greatest(kept))

\* len(s.split())
WordCount(s) ==
    Cardinality({i \in 1..Len(s) :
                    /\ Ch(s, i) \notin Spaces
                    /\ (i = 1 \/ Ch(s, i - 1) \in Spaces)})

\* The pieces of s between the separators, which start at the positions
\* starts and end at ends[start].
Pieces(s, starts, ends) ==
    [k \in 1..(Cardinality(starts) + 1) |->
        SubSeq(s,
               IF k = 1 THEN 1 ELSE ends[Kth(starts, k - 1)] + 1,
               IF k = Cardinality(starts) + 1 THEN Len(s)
               ELSE Kth(starts, k) - 1)]

\* str.split(sep) for a separator of one character.
SplitOn(s, sep) ==
    LET starts == {i \in 1..Len(s) : Ch(s, i) = sep}
    IN Pieces(s, starts, [i \in starts |-> i])

\* The last position of the run of characters of chars that starts at i.
RunEnd(s, i, chars) ==
    LET stops == {j \in i..Len(s) :
                     j = Len(s) \/ Ch(s, j + 1) \notin chars}
    IN Least(stops)

\* The length of the "[digits]" that starts at position i, 0 when none does.
CitationLen(s, i) ==
    IF Ch(s, i) = "[" /\ i < Len(s) /\ Ch(s, i + 1) \in Digits
    THEN LET last == RunEnd(s, i + 1, Digits)
         IN IF last < Len(s) /\ Ch(s, last + 1) = "]" THEN last + 2 - i ELSE 0
    ELSE 0

\* re.sub(r'\[\d+\]', '', text)
RemoveCitations(s) ==
    LET cited == {i \in 1..Len(s) :
                     \E p \in 1..i : /\ CitationLen(s, p) > 0
                                     /\ i < p + CitationLen(s, p)}
    IN Concat([i \in 1..Len(s) |-> IF i \in cited THEN "" ELSE Ch(s, i)],
              1, Len(s))

\* re.sub(r'\s+', ' ', text)
CollapseSpaces(s) ==
    Concat([i \in 1..Len(s) |->
               IF Ch(s, i) \notin Spaces THEN Ch(s, i)
               ELSE IF i = 1 \/ Ch(s, i - 1) \notin Spaces THEN " "
               ELSE ""],
           1, Len(s))

\* ContentAnalyzer._clean_text
CleanText(text) ==
    StripChars(CollapseSpaces(RemoveCitations(text)), {".", ",", ";", ":", " "})

\* re.split(r'(?<=[.!?])\s+', content): a run of whitespace that follows
\* ".", "!" or "?" separates two pieces.
SplitSentences(s) ==
    LET starts == {i \in 2..Len(s) :
                      /\ Ch(s, i) \in Spaces
                      /\ Ch(s, i - 1) \in {".", "!", "?"}}
    IN Pieces(s, starts, [i \in starts |-> RunEnd(s, i, Spaces)])

\* The prefixes that _extract_key_points removes, in the order of the pattern.
HedgePrefixes ==
    <<"it is", "this is", "there is", "there are", "they are", "we can",
      "you can", "one can">>

\* re.sub(r'^(it is|...)\s+', '', sentence, flags=re.IGNORECASE) from
\* alternative i on.
RECURSIVE RemoveHedge(_, _)
RemoveHedge(sentence, i) ==
    IF i > Len(HedgePrefixes) THEN sentence
    ELSE LET p == HedgePrefixes[i] IN
         IF /\ Len(sentence) > Len(p)
            /\ LowerText(SubSeq(sentence, 1, Len(p))) = p
            /\ Ch(sentence, Len(p) + 1) \in Spaces
         THEN Drop(sentence, RunEnd(sentence, Len(p) + 1, Spaces))
         ELSE RemoveHedge(sentence, i + 1)

\* ContentAnalyzer._extract_key_points
ExtractKeyPoints(content) ==
    LET pieces == SelectSeq(SplitSentences(content),
                            LAMBDA s : StripChars(s, Spaces) # "")
        sentences == [i \in DOMAIN pieces |-> CleanText(pieces[i])]
        kept == SelectSeq(sentences,
                    LAMBDA sentence :
                        /\ WordCount(sentence) > 5
                        /\ \E e \in {".", "!", "?"} : StrEndsWith(sentence, e))
    IN [i \in DOMAIN kept |-> RemoveHedge(kept[i], 1)]

\* Lines 135-136 of _structure_content: the pieces between periods that have
\* more than 5 words, the first 5 of them.
FallbackKeyPoints(content) ==
    LET pieces == SplitOn(content, ".")
        stripped == [i \in DOMAIN pieces |-> StripChars(pieces[i], Spaces)]
        sentences == SelectSeq(stripped, LAMBDA s : s # "")
    IN Take(SelectSeq(sentences, LAMBDA s : WordCount(s) > 5), 5)

tool_terms ==
    <<"tool", "device", "instrument", "machine", "apparatus", "calculator",
      "abacus", "compass", "ruler", "protractor", "used for", "purpose",
      "function", "operation">>

science_terms ==
    <<"species", "genus", "family", "animal", "plant", "organism", "theory",
      "process", "phenomenon", "principle", "law", "concept", "biology",
      "chemistry", "physics", "science", "scientific">>

geo_terms ==
    <<"country", "city", "mountain", "river", "lake", "ocean", "continent">>

history_terms ==
    <<"war", "battle", "period", "era", "century", "dynasty", "revolution">>

\* any(term in text for term in terms)
AnyIn(terms, text) == \E i \in DOMAIN terms : In(terms[i], text)

\* The categories in the order in which _determine_topic_type tests them.
TopicChecks ==
    <<[type |-> "TOOL", terms |-> tool_terms],
      [type |-> "SCIENCE", terms |-> science_terms],
      [type |-> "GEOGRAPHY", terms |-> geo_terms],
      [type |-> "HISTORY", terms |-> history_terms]>>

\* The chain of tests of _determine_topic_type from test i on.
RECURSIVE TopicFrom(_, _, _, _)
TopicFrom(checks, i, topic_lower, content_lower) ==
    IF i > Len(checks) THEN "GENERAL"
    ELSE IF AnyIn(checks[i].terms, topic_lower)
                \/ AnyIn(checks[i].terms, content_lower)
         THEN checks[i].type
         ELSE TopicFrom(checks, i + 1, topic_lower, content_lower)

\* The tests in the order HISTORY, GEOGRAPHY, SCIENCE, TOOL.
DetermineTopicTypeReversed(content, main_topic) ==
    TopicFrom(<<TopicChecks[4], TopicChecks[3], TopicChecks[2], TopicChecks[1]>>,
              1, LowerText(main_topic), LowerText(content))

\* ContentAnalyzer._determine_topic_type
DetermineTopicType(content, main_topic) ==
    TopicFrom(TopicChecks, 1, LowerText(main_topic), LowerText(content))

Sec(title, patterns) == [title |-> title, patterns |-> patterns]

Overview ==
    Sec("Overview", <<"overview", "introduction", "about", "general", "basic">>)

Information ==
    Sec("Information",
        <<"information", "details", "facts", "data", "statistics">>)

\* self.section_patterns[topic_type], in the insertion order of the dict.
section_patterns(topic_type) ==
    CASE topic_type = "GEOGRAPHY" ->
           <<Overview,
             Sec("Location", <<"located", "situated", "found in", "position",
                               "coordinates">>),
             Sec("Physical Features", <<"mountain", "river", "lake", "climate",
                                        "terrain", "landscape">>),
             Sec("History", <<"history", "historical", "founded",
                              "established", "discovered">>),
             Sec("Culture", <<"culture", "people", "population", "language",
                              "traditions">>),
             Information>>
      [] topic_type = "SCIENCE" ->
           <<Overview,
             Sec("Definition", <<"defined as", "refers to", "means", "is a",
                                 "consists of">>),
             Sec("Process", <<"process", "how it works", "mechanism", "steps",
                              "stages">>),
             Sec("Applications", <<"used in", "applied to", "applications",
                                   "uses", "practical">>),
             Sec("Research", <<"studies", "research", "experiments",
                               "findings", "discoveries">>),
             Information>>
      [] topic_type = "HISTORY" ->
           <<Overview,
             Sec("Background", <<"background", "context", "situation",
                                 "circumstances">>),
             Sec("Events", <<"event", "occurred", "happened", "took place",
                             "began">>),
             Sec("Impact", <<"impact", "effect", "influence", "consequences",
                             "resulted in">>),
             Sec("Significance", <<"significant", "important", "notable",
                                   "memorable", "historic">>),
             Information>>
      [] topic_type = "TOOL" ->
           <<Overview,
             Sec("Definition", <<"defined as", "refers to", "means", "is a",
                                 "consists of", "tool", "device",
                                 "instrument">>),
             Sec("History", <<"history", "historical", "origin", "developed",
                              "invented", "created", "first used">>),
             Sec("Usage", <<"how to use", "operation", "function", "purpose",
                            "used for", "application">>),
             Sec("Components", <<"parts", "components", "structure", "made of",
                                 "constructed", "design">>),
             Sec("Benefits", <<"benefits", "advantages", "importance",
                               "significance", "value", "useful">>),
             Information>>
      [] OTHER ->
           <<Overview,
             Sec("Details", <<"details", "specifics", "particulars",
                              "characteristics", "features">>),
             Sec("Examples", <<"example", "instance", "case", "illustration",
                               "sample">>),
             Sec("Related", <<"related", "connected", "associated", "similar",
                              "relevant">>),
             Information>>

\* The last section that matches instead of the first.
LastSectionOf(patterns, point_lower, i) ==
    LET matching == {j \in i..Len(patterns) :
                        AnyIn(patterns[j].patterns, point_lower)}
    IN IF matching = {} THEN Len(patterns)
       ELSE CHOOSE j \in matching : \A k \in matching : k <= j

\* The inner loop of lines 146-154: the position of the first section one of
\* whose patterns is in point_lower; the position of "Information" (the last
\* section of every table) when there is none.
RECURSIVE SectionOf(_, _, _)
SectionOf(patterns, point_lower, i) ==
    IF i > Len(patterns) THEN Len(patterns)
    ELSE IF AnyIn(patterns[i].patterns, point_lower) THEN i
    ELSE SectionOf(patterns, point_lower, i + 1)

\* Lines 139-154: sections, as the list of points of each section in the
\* order of the table.
Categorize(patterns, key_points) ==
    [i \in DOMAIN patterns |->
        [title |-> patterns[i].title,
         points |-> SelectSeq(key_points,
                       LAMBDA point :
                           SectionOf(patterns, LowerText(point), 1) = i)]]

\* Lines 160-165 with every point of a section.
BuildBlocksUncut(sections) ==
    LET filled == SelectSeq(sections, LAMBDA sec : sec.points # <<>>)
    IN [i \in DOMAIN filled |->
           [title |-> filled[i].title, bullets |-> filled[i].points]]

\* Lines 160-165: a block for every section that has points, with its first
\* 5 points as bullets.
BuildBlocks(sections) ==
    LET filled == SelectSeq(sections, LAMBDA sec : sec.points # <<>>)
    IN [i \in DOMAIN filled |->
           [title |-> filled[i].title, bullets |-> Take(filled[i].points, 5)]]

\* _structure_content without the basic structure of lines 168-171.
StructureContentNoBasic(content, main_topic) ==
    LET topic_type == DetermineTopicType(content, main_topic)
        patterns == section_patterns(topic_type)
        extracted == ExtractKeyPoints(content)
        key_points == IF extracted = <<>> THEN FallbackKeyPoints(content)
                      ELSE extracted
        sections == Categorize(patterns, key_points)
    IN [content |-> content,
        main_topic |-> main_topic,
        topic_type |-> topic_type,
        key_points |-> key_points,
        sections |-> sections,
        blocks |-> BuildBlocks(sections)]

\* What _structure_content is given and computes on the way for content that
\* is not empty: the topic type, the key points, the sections and the blocks
\* ("\n<title>:" and a line "• <point>" for each bullet).
StructureContent(content, main_topic) ==
    LET topic_type == DetermineTopicType(content, main_topic)
        patterns == section_patterns(topic_type)
        extracted == ExtractKeyPoints(content)
        key_points == IF extracted = <<>> THEN FallbackKeyPoints(content)
                      ELSE extracted
        sections == Categorize(patterns, key_points)
        result == BuildBlocks(sections)
    IN [content |-> content,
        main_topic |-> main_topic,
        topic_type |-> topic_type,
        key_points |-> key_points,
        sections |-> sections,
        blocks |-> IF result = <<>>
                   THEN <<[title |-> "Information",
                           bullets |-> Take(key_points, 5)]>>
                   ELSE result]

\* len(line.split()) summed over the lines of the blocks.
RECURSIVE SumWords(_)
SumWords(points) ==
    IF points = <<>> THEN 0
    ELSE 1 + WordCount(Head(points)) + SumWords(Tail(points))

RECURSIVE RenderedWordCount(_)
RenderedWordCount(blocks) ==
    IF blocks = <<>> THEN 0
    ELSE WordCount(Head(blocks).title \o ":") + SumWords(Head(blocks).bullets)
             + RenderedWordCount(Tail(blocks))

\* The atoms of a text of the query processor as one string.
RECURSIVE Str(_)
Str(atoms) == IF atoms = <<>> THEN "" ELSE Head(atoms) \o Str(Tail(atoms))

\* " ".join(doc.page_content for doc in documents if doc.page_content)
RECURSIVE JoinContent(_)
JoinContent(documents) ==
    IF documents = <<>> THEN ""
    ELSE IF Len(documents) = 1 THEN Head(documents).page_content.text
    ELSE Head(documents).page_content.text \o " "
             \o JoinContent(Tail(documents))

\* entities[0] if entities else processed_query.get("cleaned_query", "")
MainTopic(pq) ==
    IF pq.entities # <<>> THEN pq.entities[1] ELSE Str(pq.cleaned_query)

\* structured_content before _structure_content has run.
NoStructure ==
    [content |-> "", main_topic |-> "", topic_type |-> "NONE",
     key_points |-> <<>>, sections |-> <<>>, blocks |-> <<>>]

----------------------------------------------------------------------------
(* handle_query: one request                                               *)

NoOutcome ==
    [kind |-> "none", status |-> 0, detail |-> "", response |-> NoResponse,
     confidence |-> 0, sources |-> <<>>]

\* raise HTTPException(status_code=status, detail=detail)
HttpError(status, detail) ==
    [kind |-> "error", status |-> status, detail |-> detail,
     response |-> NoResponse, confidence |-> 0, sources |-> <<>>]

\* HTTPException(status_code=status, detail=detail)
HTTPException(status, detail) ==
    [http |-> TRUE, status |-> status, detail |-> detail]

\* Any other exception.
Fault(text) == [http |-> FALSE, status |-> 0, detail |-> text]

\* A handler whose "except Exception" comes first.
HandleExceptionAll(exc) ==
    HttpError(500, "Error processing query: " \o exc.detail)

\* main.py 67-71: an HTTPException is raised again as it is, any other
\* exception becomes a 500 that carries its text and the traceback.
HandleException(exc) ==
    IF exc.http THEN HttpError(exc.status, exc.detail)
    ELSE HttpError(500, "Error processing query: " \o exc.detail)

\* return QueryResponse(response=..., confidence=..., sources=...)
QueryResponse(data) ==
    [kind |-> "payload", status |-> 200, detail |-> "",
     response |-> data.response, confidence |-> data.confidence,
     sources |-> data.sources]

\* "not request.query" alone.
IsBlankNoStrip(q) == q = <<>>

\* not request.query or not request.query.strip()
IsBlank(q) == q = <<>> \/ Strip(q) = <<>>

\* [cleaned_query] + alternative_phrasings
SearchTerms(pq) == <<pq.cleaned_query>> \o pq.alternative_phrasings

\* search_results[:3]
MaxFetched == 3

(* The requests and the document source's replies that are tried.          *)

MainQueries ==
    { <<>>, <<" ">>, <<"\t", " ">>,
      <<"What", " ", "is", " ", "abacus">>,
      <<"compare", " ", "abacus">> }

EmptyHits == [st |-> "ok", hits |-> <<>>]

Hits(h) == [st |-> "ok", hits |-> h]

NoKey == [st |-> "nokey", hits |-> <<>>]

Raises == [st |-> "raise", hits |-> <<>>]

NoFallback == <<EmptyHits, EmptyHits, EmptyHits, EmptyHits>>

\* What the document source may answer for one search term.
TermReplies ==
    { [direct |-> Pg("", "raise"), variants |-> NoFallback],
      [direct |-> Pg("A", "ok"), variants |-> NoFallback],
      [direct |-> Pg("B", "ok"), variants |-> NoFallback],
      [direct |-> Pg("", "missing"), variants |-> NoFallback],
      [direct |-> Pg("B (disambiguation)", "disambiguation"),
       variants |-> <<Hits(<<Pg("A", "missing"), Pg("B", "disambiguation")>>),
                      NoKey, Raises, EmptyHits>>],
      [direct |-> Pg("A (disambiguation)", "disambiguation"),
       variants |-> <<Hits(<<Pg("C", "ok"), Pg("A", "missing"), Pg("D", "ok")>>),
                      Raises, EmptyHits, EmptyHits>>],
      [direct |-> Pg("", "missing"),
       variants |-> <<NoKey,
                      Hits(<<Pg("B", "ok"), Pg("D", "disambiguation")>>),
                      Hits(<<Pg("A", "ok"), Pg("C", "raise")>>),
                      Hits(<<Pg("D", "ok")>>)>>],
      [direct |-> Pg("", "missing"),
       variants |-> <<Hits(<<Pg("D", "ok")>>), EmptyHits,
                      Hits(<<Pg("A", "disambiguation"), Pg("C", "ok")>>),
                      EmptyHits>>] }

Url(t) == "https://en.wikipedia.org/wiki/" \o t

\* What the document source may answer when a candidate's article is fetched.
FetchReplies(t) ==
    { [st |-> "missing", content |-> EmptyText, url |-> ""],
      [st |-> "raise", content |-> EmptyText, url |-> ""],
      [st |-> "ok", content |-> EmptyText, url |-> Url(t)],
      [st |-> "ok", content |-> Text(300, 800, 2, "ok"), url |-> Url(t)],
      [st |-> "ok", content |-> Text(40, 0, 0, "ok"), url |-> Url(t)],
      [st |-> "ok", content |-> Text(3, 0, 0, "raise"), url |-> Url(t)] }

\* The fetch replies for a list of candidates, one per candidate.
FetchRepliesFor(results) ==
    {a \in [DOMAIN results -> UNION {FetchReplies(results[i].title) :
                                         i \in DOMAIN results}] :
        \A i \in DOMAIN results : a[i] \in FetchReplies(results[i].title)}

\* len(structured_content.split()) of a rendering of non-empty content, which
\* has at least its "Information:" header.
MaxRendered == 2

RenderedWords == {1} \cup {300 * k : k \in 1..MaxRendered}

Init ==
    /\ pc = "start"
    /\ query \in MainQueries
    /\ processed_query = NoQuery
    /\ pos_tagged = <<>>
    /\ term_idx = 0
    /\ all_results = <<>>
    /\ unique = <<>>
    /\ detailed_results = <<>>
    /\ search_results = <<>>
    /\ analyzed_content = NoAnalysis
    /\ outcome = NoOutcome
    /\ ran = {}
    /\ faults = {}
    /\ usable_offered = FALSE
    /\ vectorizer = Unfitted
    /\ structured_content = NoStructure
    /\ calls = <<>>

\* main.py 38-40: the blank check.
Validate ==
    /\ pc = "start"
    /\ IF IsBlank(query)
       THEN /\ outcome' = HandleException(
                            HTTPException(400, "Query cannot be empty"))
            /\ pc' = "done"
       ELSE /\ pc' = "classify"
            /\ UNCHANGED outcome
    /\ UNCHANGED <<query, processed_query, term_idx, all_results, unique,
                   detailed_results, search_results, analyzed_content, ran,
                   faults, usable_offered,
                   vectorizer,
                   structured_content, calls, pos_tagged>>

\* main.py 43-45: process_query returns.
Classify ==
    /\ pc = "classify"
    /\ \E tagged \in Taggings(Tokenize(Strip(LowerStr(query)))) :
          /\ pos_tagged' = tagged
          /\ processed_query' = Process(query, tagged)
    /\ pc' = "search"
    /\ ran' = ran \cup {"classify"}
    /\ UNCHANGED <<query, term_idx, all_results, unique, detailed_results,
                   search_results, analyzed_content, outcome, faults,
                   usable_offered,
                   vectorizer,
                   structured_content, calls>>

\* main.py 43, 69-71: the tokenizer or the tagger raises inside process_query,
\* which has no handler of its own.
ClassifyRaises ==
    /\ pc = "classify"
    /\ pc' = "done"
    /\ ran' = ran \cup {"classify"}
    /\ faults' = faults \cup {"classify"}
    /\ outcome' = HandleException(Fault("LookupError: resource not found"))
    /\ UNCHANGED <<query, processed_query, term_idx, all_results, unique,
                   detailed_results, search_results, analyzed_content,
                   usable_offered,
                   vectorizer,
                   structured_content, calls, pos_tagged>>

\* wiki_search.py 52-93 and 32-35: one search term; after the last one
\* _perform_search returns the deduplicated list and search() tests it.
SearchTerm ==
    /\ pc = "search"
    /\ term_idx < Len(SearchTerms(processed_query))
    /\ \E reply \in TermReplies :
          LET got == SearchOneTerm(reply)
              collected == all_results \o got.added
              last == term_idx + 1 = Len(SearchTerms(processed_query))
              found == DeduplicateAndSort(collected)
          IN /\ faults' = IF got.raised THEN faults \cup {"term"} ELSE faults
             /\ usable_offered' = (usable_offered \/ ~OffersNothing(reply))
             /\ term_idx' = term_idx + 1
             /\ IF ~last
                THEN /\ all_results' = collected
                     /\ UNCHANGED <<unique, pc>>
                ELSE /\ all_results' = <<>>
                     /\ unique' = found
                     /\ pc' = IF found = <<>> THEN "retrieved" ELSE "fetch"
    /\ ran' = ran \cup {"search", "lookup"}
    /\ UNCHANGED <<query, processed_query, detailed_results, search_results,
                   analyzed_content, outcome, vectorizer,
                   structured_content, calls, pos_tagged>>

\* wiki_search.py 37-40: the articles of the first three candidates.
FetchArticles ==
    /\ pc = "fetch"
    /\ \E replies \in FetchRepliesFor(Take(unique, MaxFetched)) :
          /\ detailed_results' =
                 GetArticleContent(Take(unique, MaxFetched), replies)
          /\ faults' = IF \E i \in DOMAIN replies : replies[i].st = "raise"
                       THEN faults \cup {"fetch"} ELSE faults
    /\ pc' = IF detailed_results' = <<>> THEN "retrieved" ELSE "rank"
    /\ ran' = ran \cup {"lookup", "fetch"}
    /\ UNCHANGED <<query, processed_query, term_idx, all_results, unique,
                   search_results, analyzed_content, outcome, usable_offered,
                   vectorizer,
                   structured_content, calls, pos_tagged>>

\* wiki_search.py 42: search() returns the ranked passages.
RankResults ==
    /\ pc = "rank"
    /\ LET ranked == ProcessResults(vectorizer,
                                    processed_query.original_query,
                                    detailed_results)
       IN /\ search_results' = ranked.out
          /\ vectorizer' = ranked.vectorizer
    /\ faults' = IF \E i \in DOMAIN detailed_results :
                       detailed_results[i].content.vec = "raise"
                 THEN faults \cup {"score"} ELSE faults
    /\ pc' = "retrieved"
    /\ ran' = ran \cup {"rank"}
    /\ UNCHANGED <<query, processed_query, term_idx, all_results, unique,
                   detailed_results, analyzed_content, outcome, usable_offered,
                   structured_content, calls, pos_tagged>>

\* wiki_search.py 44-46: an exception escapes the inner handlers of search().
SearchRaises ==
    /\ pc \in {"search", "fetch", "rank"}
    /\ search_results' = <<>>
    /\ all_results' = <<>>
    /\ unique' = <<>>
    /\ detailed_results' = <<>>
    /\ pc' = "retrieved"
    /\ ran' = ran \cup {"search"}
    /\ faults' = faults \cup {"search"}
    /\ UNCHANGED <<query, processed_query, term_idx, analyzed_content, outcome,
                   usable_offered,
                   vectorizer,
                   structured_content, calls, pos_tagged>>

\* main.py 49-50: the test of what search_wikipedia returned; the lists that
\* search() worked on are gone.
CheckEvidence ==
    /\ pc = "retrieved"
    /\ unique' = <<>>
    /\ detailed_results' = <<>>
    /\ IF search_results = <<>>
       THEN /\ outcome' = HandleException(
                            HTTPException(404, "No relevant information found"))
            /\ pc' = "done"
       ELSE /\ pc' = "analyze"
            /\ UNCHANGED outcome
    /\ UNCHANGED <<query, processed_query, term_idx, all_results,
                   search_results, analyzed_content, ran, faults,
                   usable_offered,
                   vectorizer,
                   structured_content, calls, pos_tagged>>

\* main.py 53-55: analyze_content returns (it never returns an empty dict).
Analyze ==
    /\ pc = "analyze"
    /\ \E fails \in BOOLEAN, rendered_words \in RenderedWords :
          /\ analyzed_content' =
                 AnalyzeContent(search_results, processed_query,
                                rendered_words, fails)
          /\ faults' = IF fails THEN faults \cup {"structure"} ELSE faults
    /\ pc' = "generate"
    /\ ran' = ran \cup {"structure"}
    /\ UNCHANGED <<query, processed_query, term_idx, all_results, unique,
                   detailed_results, search_results, outcome, usable_offered,
                   vectorizer,
                   structured_content, calls, pos_tagged>>

\* main.py 58-66: generate_response returns and the payload is built.
Generate ==
    /\ pc = "generate"
    /\ \E fails \in BOOLEAN :
          /\ outcome' = QueryResponse(
                 GenerateResponse(analyzed_content, processed_query, fails))
          /\ faults' = IF fails THEN faults \cup {"synthesis"} ELSE faults
    /\ pc' = "done"
    /\ ran' = ran \cup {"synthesis"}
    /\ UNCHANGED <<query, processed_query, term_idx, all_results, unique,
                   detailed_results, search_results, analyzed_content,
                   usable_offered,
                   vectorizer,
                   structured_content, calls, pos_tagged>>

Next ==
    \/ Validate
    \/ Classify
    \/ ClassifyRaises
    \/ SearchTerm
    \/ FetchArticles
    \/ RankResults
    \/ SearchRaises
    \/ CheckEvidence
    \/ Analyze
    \/ Generate

Spec == Init /\ [][Next]_vars

----------------------------------------------------------------------------
(* QueryProcessor.process on its own, over a wider set of queries          *)

Range(f) == {f[i] : i \in DOMAIN f}

\* The literal space of a phrase replaced by a tab.
Retab(s) == [i \in DOMAIN s |-> IF s[i] = " " THEN "\t" ELSE s[i]]

\* Every alternative of every pattern and of the prefix that is removed.
AllAlternatives ==
    UNION {Range(Patterns[i].alts) : i \in DOMAIN Patterns}
        \cup Range(BasePrefixes)

\* How a query may begin.
Leads ==
    AllAlternatives \cup {Retab(a) : a \in AllAlternatives}
        \cup { <<"whatever">>, <<"abacus">>, <<"What", " ", "is">>,
               <<"How", " ", "to">>, <<"Why">>, <<"Explain">>,
               <<"what", " ", " ", "is">>, <<"what", " ", "isotope">> }

\* The longest run of whitespace after the lead, and the most words after it.
MaxGap == 2

MaxTailWords == 2

\* The sequences over S of length 1..n.
SeqsUpTo(S, n) == UNION {[1..k -> S] : k \in 1..n}

Gaps == SeqsUpTo(Whitespace, MaxGap)

Tails == {Phrase(w) : w \in SeqsUpTo({"abacus", "why"}, MaxTailWords)}

\* Queries in which a noun occurs twice, and in which a stopword or a word of
\* two letters may be tagged as a noun.
EntityQueries ==
    { Phrase(<<"the", "cat", "sat", "on", "the", "cat", "mat">>),
      Phrase(<<"mat", "ox", "can", "cat", "Mat">>) }

ClassifyQueries ==
    LET core == Leads \cup {l \o g \o t : l \in Leads, g \in Gaps, t \in Tails}
    IN core \cup {<<" ">> \o q \o <<"\t">> : q \in core} \cup EntityQueries

InitClassify ==
    /\ pc = "process"
    /\ query \in ClassifyQueries
    /\ processed_query = NoQuery
    /\ pos_tagged = <<>>
    /\ term_idx = 0
    /\ all_results = <<>>
    /\ unique = <<>>
    /\ detailed_results = <<>>
    /\ search_results = <<>>
    /\ analyzed_content = NoAnalysis
    /\ outcome = NoOutcome
    /\ ran = {}
    /\ faults = {}
    /\ usable_offered = FALSE
    /\ vectorizer = Unfitted
    /\ structured_content = NoStructure
    /\ calls = <<>>

\* query_processor.py 84-107: process returns.
ProcessQuery ==
    /\ pc = "process"
    /\ \E tagged \in Taggings(Tokenize(Strip(LowerStr(query)))) :
          /\ pos_tagged' = tagged
          /\ processed_query' = Process(query, tagged)
    /\ pc' = "returned"
    /\ UNCHANGED <<query, term_idx, all_results, unique, detailed_results,
                   search_results, analyzed_content, outcome, ran, faults,
                   usable_offered,
                   vectorizer,
                   structured_content, calls>>

NextClassify == ProcessQuery

SpecClassify == InitClassify /\ [][NextClassify]_vars

----------------------------------------------------------------------------
(* _deduplicate_and_sort on its own, over every short list of candidates   *)

\* The longest list of collected candidates.
MaxCollected == 3

\* 1.0 and 0.9 - 0.1 * idx as _perform_search sets them, and 0.95.
DedupCandidates ==
    {Cand(t, r) : t \in {"A", "B", "C"}, r \in {700, 900, 950, 1000}}

InitDedup ==
    /\ pc = "dedup"
    /\ query = <<>>
    /\ processed_query = NoQuery
    /\ pos_tagged = <<>>
    /\ term_idx = 0
    /\ all_results \in {<<>>} \cup SeqsUpTo(DedupCandidates, MaxCollected)
    /\ unique = <<>>
    /\ detailed_results = <<>>
    /\ search_results = <<>>
    /\ analyzed_content = NoAnalysis
    /\ outcome = NoOutcome
    /\ ran = {}
    /\ faults = {}
    /\ usable_offered = FALSE
    /\ vectorizer = Unfitted
    /\ structured_content = NoStructure
    /\ calls = <<>>

\* wiki_search.py 93: return self._deduplicate_and_sort(all_results)
DeduplicateResults ==
    /\ pc = "dedup"
    /\ unique' = DeduplicateAndSort(all_results)
    /\ pc' = "returned"
    /\ UNCHANGED <<query, processed_query, term_idx, all_results,
                   detailed_results, search_results, analyzed_content, outcome,
                   ran, faults, usable_offered,
                   vectorizer,
                   structured_content, calls, pos_tagged>>

NextDedup == DeduplicateResults

SpecDedup == InitDedup /\ [][NextDedup]_vars

----------------------------------------------------------------------------
(* _process_results on its own, over a grid of fetched texts               *)

\* The most distinct query terms found in a text.
MaxTermHits == 2

\* The fetched texts: whitespace only (no word), short, and long ones, with no
\* and with full similarity, one on which the vectorizer fails, and one on
\* whose sentences alone it fails.
RankTexts ==
    {Text(w, sim, h, "ok") :
        w \in {0, 40, 200}, sim \in {0, 1000}, h \in 0..MaxTermHits}
        \cup {Text(3, 0, 0, "raise"), Text(40, 0, 0, "raise_sentences")}

\* The candidates as _get_article_content hands them on: at most three, with
\* distinct titles, by descending relevance.
RankInputs ==
    {<<>>} \cup
    UNION {{[i \in 1..n |->
                [title |-> <<"A", "B", "C">>[i],
                 pageid |-> PageId(<<"A", "B", "C">>[i]),
                 relevance |-> 1000 - 100 * (i - 1),
                 content |-> c[i],
                 url |-> Url(<<"A", "B", "C">>[i])]] :
              c \in [1..n -> RankTexts]} : n \in 1..MaxFetched}

InitRank ==
    /\ pc = "rank_only"
    /\ query = <<>>
    /\ processed_query = NoQuery
    /\ pos_tagged = <<>>
    /\ term_idx = 0
    /\ all_results = <<>>
    /\ unique = <<>>
    /\ detailed_results \in RankInputs
    /\ search_results = <<>>
    /\ analyzed_content = NoAnalysis
    /\ outcome = NoOutcome
    /\ ran = {}
    /\ faults = {}
    /\ usable_offered = FALSE
    /\ vectorizer = Unfitted
    /\ structured_content = NoStructure
    /\ calls = <<>>

\* wiki_search.py 42: return self._process_results(detailed_results, ...)
RankOnly ==
    /\ pc = "rank_only"
    /\ LET ranked == ProcessResults(vectorizer, query, detailed_results)
       IN /\ search_results' = ranked.out
          /\ vectorizer' = ranked.vectorizer
    /\ pc' = "returned"
    /\ UNCHANGED <<query, processed_query, term_idx, all_results, unique,
                   detailed_results, analyzed_content, outcome, ran, faults,
                   usable_offered,
                   structured_content, calls, pos_tagged>>

NextRank == RankOnly

SpecRank == InitRank /\ [][NextRank]_vars

----------------------------------------------------------------------------
(* _process_results on one candidate, with the paragraphs of its text      *)

\* The most paragraphs of a text.
MaxParagraphs == 3

\* The paragraphs a text is made of: with a long and a short sentence, with
\* one long sentence, with short sentences only, with six sentences of six to
\* eight words, and blank. Similarities differ from unit to unit.
ParagraphPool ==
    { Paragraph(1, 900, <<Sentence(11, 30, 500), Sentence(12, 3, 950)>>),
      Paragraph(2, 100, <<Sentence(21, 60, 700)>>),
      Paragraph(3, 500, <<Sentence(31, 4, 50), Sentence(32, 5, 990)>>),
      Paragraph(4, 300, <<Sentence(41, 6, 610), Sentence(42, 7, 620),
                          Sentence(43, 8, 630), Sentence(44, 6, 640),
                          Sentence(45, 7, 650), Sentence(46, 8, 660)>>),
      Paragraph(5, 700, <<Sentence(51, 50, 10)>>),
      Paragraph(6, 800, <<>>) }

\* A text of the given paragraphs.
Article(paragraphs) ==
    [empty |-> FALSE, words |-> WordsOfAll(paragraphs), sim |-> 500,
     hits |-> 1, vec |-> "ok", form |-> "full", paragraphs |-> paragraphs,
     excerpt |-> NoExcerpt]

\* The texts of up to MaxParagraphs different paragraphs, in any order.
ExcerptTexts ==
    {Article(ps) :
        ps \in {f \in UNION {[1..n -> ParagraphPool] : n \in 1..MaxParagraphs} :
                   \A i, j \in DOMAIN f : i # j => f[i] # f[j]}}

InitExcerpt ==
    /\ pc = "rank_only"
    /\ query = <<>>
    /\ processed_query = NoQuery
    /\ pos_tagged = <<>>
    /\ term_idx = 0
    /\ all_results = <<>>
    /\ unique = <<>>
    /\ detailed_results \in
           {<<[title |-> "A", pageid |-> PageId("A"), relevance |-> 1000,
               content |-> c, url |-> Url("A")]>> : c \in ExcerptTexts}
    /\ search_results = <<>>
    /\ analyzed_content = NoAnalysis
    /\ outcome = NoOutcome
    /\ ran = {}
    /\ faults = {}
    /\ usable_offered = FALSE
    /\ vectorizer = Unfitted
    /\ structured_content = NoStructure
    /\ calls = <<>>

SpecExcerpt == InitExcerpt /\ [][NextRank]_vars

----------------------------------------------------------------------------
(* analyze_content and generate on their own, over passages whose title or *)
(* url may be missing                                                      *)

\* The longest passage list.
MaxPassages == 2

\* Passages as the ranker hands them on: each with an excerpt, by descending
\* score; the title or the url may be the empty string.
PassageLists ==
    UNION {{[i \in 1..n |->
                [title |-> t[i],
                 pageid |-> i,
                 relevance |-> 1000 - 100 * (i - 1),
                 content |-> [Text(300, 800, 2, "ok") EXCEPT !.form = "excerpt"],
                 url |-> u[i],
                 confidence |-> ScoreOne - 1000 * (i - 1)]] :
              t \in {f \in [1..n -> {"", "A", "B", "C"}] :
                       \A i \in 1..n : f[i] \in {"", <<"A", "B", "C">>[i]}},
              u \in {f \in [1..n -> {""} \cup {Url(x) : x \in {"A", "B", "C"}}] :
                       \A i \in 1..n :
                          f[i] \in {"", Url(<<"A", "B", "C">>[i])}}} :
           n \in 1..MaxPassages}

InitSynthesis ==
    /\ pc = "analyze"
    /\ query \in {<<"What", " ", "is", " ", "abacus">>,
                  <<"compare", " ", "abacus">>}
    /\ pos_tagged \in Taggings(Tokenize(Strip(LowerStr(query))))
    /\ processed_query = Process(query, pos_tagged)
    /\ term_idx = 0
    /\ all_results = <<>>
    /\ unique = <<>>
    /\ detailed_results = <<>>
    /\ search_results \in PassageLists
    /\ analyzed_content = NoAnalysis
    /\ outcome = NoOutcome
    /\ ran = {}
    /\ faults = {}
    /\ usable_offered = FALSE
    /\ vectorizer = Unfitted
    /\ structured_content = NoStructure
    /\ calls = <<>>

NextSynthesis ==
    \/ Analyze
    \/ Generate

SpecSynthesis == InitSynthesis /\ [][NextSynthesis]_vars

----------------------------------------------------------------------------
(* analyze_content on its own, with the text of the passages               *)

\* The longest passage list that is structured.
MaxDocs == 2

\* An excerpt as the ranker hands it on, with its text.
Excerpt(text) ==
    [empty |-> text = "", words |-> WordCount(text), sim |-> 800, hits |-> 2,
     vec |-> "ok", form |-> "excerpt", paragraphs |-> <<>>,
     excerpt |-> [kind |-> "paragraphs", units |-> <<>>], text |-> text]

\* The texts that are structured: sentences that end in "!" or "?" and so are
\* key points, sentences that end in "." and are only found by the fallback,
\* keywords of several categories and of several sections, more than five
\* sentences for one section, and a text without any sentence.
StructureTexts ==
    { "The abacus is a very old counting tool! It is used for fast sums in many shops? It was invented long ago and used for trade!",
      "We saw one big red thing 0! We saw one big red thing 1! We saw one big red thing 2! We saw one big red thing 3! We saw one big red thing 4! We saw one big red thing 5! We saw one big red thing 6!",
      "They built many large things over time. This is a long River in the north of the land. A b c.",
      "nothing",
      "The general theory of the long war was new to them all! The river data is a case in the basic law?",
      "That battle began when the old king died there! THERE ARE   many notable events that began in his day[12]!",
      "The city was founded after a war in that century! The people of the city had found a lake there? Its people were situated near a big mountain!" }

StructureQueries ==
    { <<"What", " ", "is", " ", "abacus">>, <<"whatever">>, <<"why">>,
      <<"The", " ", "River">> }

\* Passages by descending score, each with one of the texts.
StructurePassages ==
    UNION {{[i \in 1..n |->
                [title |-> <<"A", "B", "C">>[i],
                 pageid |-> i,
                 relevance |-> 1000 - 100 * (i - 1),
                 content |-> Excerpt(t[i]),
                 url |-> Url(<<"A", "B", "C">>[i]),
                 confidence |-> ScoreOne - 1000 * (i - 1)]] :
              t \in [1..n -> StructureTexts]} :
           n \in 1..MaxDocs}

InitStructure ==
    /\ pc = "analyze"
    /\ query \in StructureQueries
    /\ pos_tagged \in Taggings(Tokenize(Strip(LowerStr(query))))
    /\ processed_query = Process(query, pos_tagged)
    /\ term_idx = 0
    /\ all_results = <<>>
    /\ unique = <<>>
    /\ detailed_results = <<>>
    /\ search_results \in StructurePassages
    /\ analyzed_content = NoAnalysis
    /\ outcome = NoOutcome
    /\ ran = {}
    /\ faults = {}
    /\ usable_offered = FALSE
    /\ vectorizer = Unfitted
    /\ structured_content = NoStructure
    /\ calls = <<>>

\* content_analyzer.py 227-277 and 175-222: the documents are joined and
\* structured, and the result is measured.
AnalyzeDocuments ==
    /\ pc = "analyze"
    /\ structured_content' =
           StructureContent(JoinContent(Documents(search_results)),
                            MainTopic(processed_query))
    /\ analyzed_content' =
           AnalyzeContent(search_results, processed_query,
                          RenderedWordCount(structured_content'.blocks), FALSE)
    /\ pc' = "generate"
    /\ ran' = ran \cup {"structure"}
    /\ UNCHANGED <<query, processed_query, term_idx, all_results, unique,
                   detailed_results, search_results, outcome, faults,
                   usable_offered, vectorizer, calls, pos_tagged>>

NextStructure == AnalyzeDocuments

SpecStructure == InitStructure /\ [][NextStructure]_vars

----------------------------------------------------------------------------
(* analyze_content on blobs with and without a key sentence                *)

\* The texts of the passages: none, blank, without a sentence of more than
\* five words, and with key sentences.
BlobTexts ==
    { "", " ", "nothing", "A b c. D e f!",
      "The abacus is a very old counting tool! It is used for fast sums in many shops?" }

BlobPassages ==
    UNION {{[i \in 1..n |->
                [title |-> <<"A", "B", "C">>[i],
                 pageid |-> i,
                 relevance |-> 1000 - 100 * (i - 1),
                 content |-> Excerpt(t[i]),
                 url |-> Url(<<"A", "B", "C">>[i]),
                 confidence |-> ScoreOne - 1000 * (i - 1)]] :
              t \in [1..n -> BlobTexts]} :
           n \in 1..MaxDocs}

InitBlob ==
    /\ pc = "analyze"
    /\ query \in StructureQueries
    /\ pos_tagged \in Taggings(Tokenize(Strip(LowerStr(query))))
    /\ processed_query = Process(query, pos_tagged)
    /\ term_idx = 0
    /\ all_results = <<>>
    /\ unique = <<>>
    /\ detailed_results = <<>>
    /\ search_results \in BlobPassages
    /\ analyzed_content = NoAnalysis
    /\ outcome = NoOutcome
    /\ ran = {}
    /\ faults = {}
    /\ usable_offered = FALSE
    /\ vectorizer = Unfitted
    /\ structured_content = NoStructure
    /\ calls = <<>>

\* content_analyzer.py 227-277 and 175-213: no document is left and the
\* canned result is returned, or the documents are joined and structured, and
\* the rendering is measured.
AnalyzeBlob ==
    /\ pc = "analyze"
    /\ structured_content' =
           IF Documents(search_results) = <<>> THEN NoStructure
           ELSE StructureContent(JoinContent(Documents(search_results)),
                                 MainTopic(processed_query))
    /\ analyzed_content' =
           AnalyzeContent(search_results, processed_query,
                          RenderedWordCount(structured_content'.blocks), FALSE)
    /\ pc' = "generate"
    /\ ran' = ran \cup {"structure"}
    /\ UNCHANGED <<query, processed_query, term_idx, all_results, unique,
                   detailed_results, search_results, outcome, faults,
                   usable_offered, vectorizer, calls, pos_tagged>>

\* content_analyzer.py 215-222 and 271-277: a step raises and the error
\* result is returned.
AnalyzeBlobRaises ==
    /\ pc = "analyze"
    /\ analyzed_content' =
           AnalyzeContent(search_results, processed_query, 0, TRUE)
    /\ pc' = "generate"
    /\ faults' = faults \cup {"analyze"}
    /\ UNCHANGED <<query, processed_query, term_idx, all_results, unique,
                   detailed_results, search_results, outcome, ran,
                   usable_offered, vectorizer, structured_content, calls,
                   pos_tagged>>

NextBlob ==
    \/ AnalyzeBlob
    \/ AnalyzeBlobRaises

SpecBlob == InitBlob /\ [][NextBlob]_vars

----------------------------------------------------------------------------
(* _perform_search on its own, with the calls to the document source       *)

\* What the document source may answer for one search term: the lookup
\* fails; it finds the page; it misses and all four searches answer, one with
\* as many hits as "srlimit" allows; it finds a disambiguation page and the
\* lookup of a hit fails; it misses and a search fails.
SearchReplies ==
    { [direct |-> Pg("", "raise"), variants |-> NoFallback],
      [direct |-> Pg("A", "ok"),
       variants |-> <<Hits(<<Pg("B", "ok")>>), EmptyHits, EmptyHits,
                      EmptyHits>>],
      [direct |-> Pg("", "missing"),
       variants |-> <<Hits(<<Pg("B", "ok"), Pg("A", "missing"),
                             Pg("C", "disambiguation"), Pg("D", "ok"),
                             Pg("A", "ok")>>),
                      NoKey, EmptyHits, Hits(<<Pg("C", "ok")>>)>>],
      [direct |-> Pg("A (disambiguation)", "disambiguation"),
       variants |-> <<Hits(<<Pg("C", "ok"), Pg("A", "raise"), Pg("D", "ok")>>),
                      EmptyHits, EmptyHits, EmptyHits>>],
      [direct |-> Pg("", "missing"),
       variants |-> <<EmptyHits, Raises, EmptyHits, EmptyHits>>] }

SearchQueries ==
    { <<"What", " ", "is", " ", "abacus">>, <<"compare", " ", "abacus">> }

InitSearch ==
    /\ pc = "search"
    /\ query \in SearchQueries
    /\ pos_tagged \in Taggings(Tokenize(Strip(LowerStr(query))))
    /\ processed_query = Process(query, pos_tagged)
    /\ term_idx = 0
    /\ all_results = <<>>
    /\ unique = <<>>
    /\ detailed_results = <<>>
    /\ search_results = <<>>
    /\ analyzed_content = NoAnalysis
    /\ outcome = NoOutcome
    /\ ran = {}
    /\ faults = {}
    /\ usable_offered = FALSE
    /\ vectorizer = Unfitted
    /\ structured_content = NoStructure
    /\ calls = <<>>

\* wiki_search.py 52-93: one search term, with its calls logged; after the
\* last term _perform_search returns the deduplicated list.
PerformSearch ==
    /\ pc = "search"
    /\ term_idx < Len(SearchTerms(processed_query))
    /\ \E reply \in SearchReplies :
          LET got == SearchOneTerm(reply)
              collected == all_results \o got.added
              last == term_idx + 1 = Len(SearchTerms(processed_query))
          IN /\ faults' = IF got.raised THEN faults \cup {"term"} ELSE faults
             /\ usable_offered' = (usable_offered \/ ~OffersNothing(reply))
             /\ term_idx' = term_idx + 1
             /\ calls' = calls \o CallsFor(term_idx + 1,
                                           SearchTerms(processed_query)[term_idx + 1],
                                           got.calls)
             /\ IF ~last
                THEN /\ all_results' = collected
                     /\ UNCHANGED <<unique, pc>>
                ELSE /\ all_results' = <<>>
                     /\ unique' = DeduplicateAndSort(collected)
                     /\ pc' = "returned"
    /\ ran' = ran \cup {"search", "lookup"}
    /\ UNCHANGED <<query, processed_query, pos_tagged, detailed_results,
                   search_results, analyzed_content, outcome, vectorizer,
                   structured_content>>

NextSearch == PerformSearch

SpecSearch == InitSearch /\ [][NextSearch]_vars

----------------------------------------------------------------------------
(* search() on its own, with failing calls: the calls of _perform_search   *)
(* and of _get_article_content are logged                                  *)

\* What the document source may answer for one search term: it finds the
\* page; the lookup of the second hit fails; the second search fails; the
\* lookup of the term fails.
FailingReplies ==
    { [direct |-> Pg("A", "ok"), variants |-> NoFallback],
      [direct |-> Pg("A (disambiguation)", "disambiguation"),
       variants |-> <<Hits(<<Pg("C", "ok"), Pg("A", "raise"), Pg("D", "ok")>>),
                      EmptyHits, EmptyHits, EmptyHits>>],
      [direct |-> Pg("", "missing"),
       variants |-> <<Hits(<<Pg("B", "ok")>>), Raises, Hits(<<Pg("D", "ok")>>),
                      EmptyHits>>],
      [direct |-> Pg("", "raise"), variants |-> NoFallback] }

\* What the document source may answer when an article is fetched: the fetch
\* fails, or it gives a text, on which the vectorizer may fail.
FailingFetchReplies(t) ==
    { [st |-> "raise", content |-> EmptyText, url |-> ""],
      [st |-> "ok", content |-> Text(300, 800, 2, "ok"), url |-> Url(t)],
      [st |-> "ok", content |-> Text(3, 0, 0, "raise"), url |-> Url(t)] }

\* The call that fetches the candidate at position i.
FetchCall(i, title, reply) ==
    [term |-> 0, text |-> <<>>, op |-> "fetch", variant |-> 0, hit |-> i,
     srlimit |-> 0, title |-> title, st |-> reply.st]

InitRetrieval ==
    /\ pc = "search"
    /\ query = <<"What", " ", "is", " ", "abacus">>
    /\ pos_tagged \in Taggings(Tokenize(Strip(LowerStr(query))))
    /\ processed_query = Process(query, pos_tagged)
    /\ term_idx = 0
    /\ all_results = <<>>
    /\ unique = <<>>
    /\ detailed_results = <<>>
    /\ search_results = <<>>
    /\ analyzed_content = NoAnalysis
    /\ outcome = NoOutcome
    /\ ran = {}
    /\ faults = {}
    /\ usable_offered = FALSE
    /\ vectorizer = Unfitted
    /\ structured_content = NoStructure
    /\ calls = <<>>

\* wiki_search.py 52-93 and 32-35: one search term, with its calls logged.
SearchTermLogged ==
    /\ pc = "search"
    /\ term_idx < Len(SearchTerms(processed_query))
    /\ \E reply \in FailingReplies :
          LET got == SearchOneTerm(reply)
              collected == all_results \o got.added
              last == term_idx + 1 = Len(SearchTerms(processed_query))
              found == DeduplicateAndSort(collected)
          IN /\ faults' = IF got.raised THEN faults \cup {"term"} ELSE faults
             /\ usable_offered' = (usable_offered \/ ~OffersNothing(reply))
             /\ term_idx' = term_idx + 1
             /\ calls' = calls \o CallsFor(term_idx + 1,
                                           SearchTerms(processed_query)[term_idx + 1],
                                           got.calls)
             /\ IF ~last
                THEN /\ all_results' = collected
                     /\ UNCHANGED <<unique, pc>>
                ELSE /\ all_results' = <<>>
                     /\ unique' = found
                     /\ pc' = IF found = <<>> THEN "retrieved" ELSE "fetch"
    /\ ran' = ran \cup {"search", "lookup"}
    /\ UNCHANGED <<query, processed_query, pos_tagged, detailed_results,
                   search_results, analyzed_content, outcome, vectorizer,
                   structured_content>>

\* wiki_search.py 37-40: the articles of the first three candidates, with the
\* calls logged.
FetchArticlesLogged ==
    /\ pc = "fetch"
    /\ LET results == Take(unique, MaxFetched) IN
       \E replies \in
             {a \in [DOMAIN results ->
                        UNION {FailingFetchReplies(results[i].title) :
                                  i \in DOMAIN results}] :
                 \A i \in DOMAIN results :
                    a[i] \in FailingFetchReplies(results[i].title)} :
          /\ detailed_results' = GetArticleContent(results, replies)
          /\ calls' = calls \o [i \in DOMAIN results |->
                                   FetchCall(i, results[i].title, replies[i])]
          /\ faults' = IF \E i \in DOMAIN replies : replies[i].st = "raise"
                       THEN faults \cup {"fetch"} ELSE faults
    /\ pc' = IF detailed_results' = <<>> THEN "retrieved" ELSE "rank"
    /\ ran' = ran \cup {"lookup", "fetch"}
    /\ UNCHANGED <<query, processed_query, pos_tagged, term_idx, all_results,
                   unique, search_results, analyzed_content, outcome,
                   usable_offered, vectorizer, structured_content>>

NextRetrieval ==
    \/ SearchTermLogged
    \/ FetchArticlesLogged
    \/ RankResults

SpecRetrieval == InitRetrieval /\ [][NextRetrieval]_vars

----------------------------------------------------------------------------
(* Several requests at once: the awaits of handle_query are the only       *)
(* places where the event loop may turn to another request, and            *)
(* _process_results has none, so one call of it is one step. Here pc,      *)
(* query, detailed_results and search_results hold one value per request.  *)

\* The number of requests in flight.
NumRequests == 2

Requests == 1..NumRequests

\* The most candidates that reach the ranker in one of these requests.
MaxRanked == 2

ConcurrentQueries ==
    { <<"What", " ", "is", " ", "abacus">>, <<"compare", " ", "abacus">> }

\* A long text close to the query, and one on which the vectorizer fails.
ConcurrentTexts == { Text(300, 800, 2, "ok"), Text(3, 0, 0, "raise") }

\* The lists _get_article_content may hand to the ranker.
ConcurrentInputs ==
    UNION {{[i \in 1..n |->
                [title |-> <<"A", "B", "C">>[i],
                 pageid |-> PageId(<<"A", "B", "C">>[i]),
                 relevance |-> 1000 - 100 * (i - 1),
                 content |-> c[i],
                 url |-> Url(<<"A", "B", "C">>[i])]] :
              c \in [1..n -> ConcurrentTexts]} : n \in 1..MaxRanked}

InitConcurrent ==
    /\ pc = [r \in Requests |-> "fetched"]
    /\ query \in [Requests -> ConcurrentQueries]
    /\ processed_query = NoQuery
    /\ pos_tagged = <<>>
    /\ term_idx = 0
    /\ all_results = <<>>
    /\ unique = <<>>
    /\ detailed_results \in [Requests -> ConcurrentInputs]
    /\ search_results = [r \in Requests |-> <<>>]
    /\ analyzed_content = NoAnalysis
    /\ outcome = NoOutcome
    /\ ran = {}
    /\ faults = {}
    /\ usable_offered = FALSE
    /\ vectorizer = Unfitted
    /\ structured_content = NoStructure
    /\ calls = <<>>

\* wiki_search.py 42: request r ranks its candidates with the vectorizer as
\* the requests before it left it.
RankRequest(r) ==
    /\ pc[r] = "fetched"
    /\ LET ranked == ProcessResults(vectorizer, query[r], detailed_results[r])
       IN /\ search_results' = [search_results EXCEPT ![r] = ranked.out]
          /\ vectorizer' = ranked.vectorizer
    /\ pc' = [pc EXCEPT ![r] = "ranked"]
    /\ UNCHANGED <<query, processed_query, term_idx, all_results, unique,
                   detailed_results, analyzed_content, outcome, ran, faults,
                   usable_offered,
                   structured_content, calls, pos_tagged>>

NextConcurrent == \E r \in Requests : RankRequest(r)

SpecConcurrent == InitConcurrent /\ [][NextConcurrent]_vars

----------------------------------------------------------------------------
(* The claims                                                              *)

AllWhitespace(q) == \A i \in DOMAIN q : q[i] \in {" ", "\t"}

Titles(s) == {s[i].title : i \in DOMAIN s}

IsError(o, status) == o.kind = "error" /\ o.status = status

WellFormedPayload(o) ==
    /\ o.kind = "payload"
    /\ o.status = 200
    /\ o.response.kind \in {"explained", "apology_error", "apology_not_enough"}
    /\ o.confidence \in 0..1000
    /\ \A i \in DOMAIN o.sources : o.sources[i] # ""

\* C1: a request whose query is empty or only whitespace ends in the client
\* error (400), and no stage (classification, lookup, search, structuring,
\* synthesis) is entered before or after that.
C1_BlankQueryRejected ==
    AllWhitespace(query) =>
        /\ ran = {}
        /\ pc \in {"start", "done"}
        /\ pc = "done" => IsError(outcome, 400)

C1_Witness ==
    pc = "done" /\ query # <<>> /\ AllWhitespace(query) /\ IsError(outcome, 400)

\* C2: whatever fails in the collaborators (tokenizer/tagger, lookup, search,
\* scoring, structuring, synthesis), a finished request gave a well-formed
\* payload or one of the two errors 400 and 404, and no other error.
C2_OnlyTwoErrors ==
    pc = "done" =>
        \/ WellFormedPayload(outcome)
        \/ IsError(outcome, 400)
        \/ IsError(outcome, 404)

\* The request whose classification raised: it ends in a 500 whose detail is
\* the text of the exception.
C2_Witness ==
    pc = "done" /\ IsError(outcome, 500) /\ faults = {"classify"}

\* C3: when no search term offers a usable page (neither directly nor in any
\* hit of any variation), search returns the empty list and the request ends
\* in 404 without fetching, structuring or synthesis.
C3_NoEvidenceNotFound ==
    (term_idx = 6 /\ ~usable_offered) =>
        /\ pc \in {"retrieved", "done"}
        /\ search_results = <<>>
        /\ ran \cap {"fetch", "rank", "structure", "synthesis"} = {}
        /\ pc = "done" => IsError(outcome, 404)

C3_Witness ==
    /\ pc = "done"
    /\ term_idx = 6
    /\ ~usable_offered
    /\ "term" \in faults
    /\ IsError(outcome, 404)

\* C4 as stated: blank query gives 400, empty evidence gives 404, and a
\* failure in any stage, retrieval included, gives the server error 500.
C4_AnyFailureIsServerError ==
    pc = "done" =>
        /\ AllWhitespace(query) => IsError(outcome, 400)
        /\ faults # {} => IsError(outcome, 500)
        /\ (~AllWhitespace(query) /\ faults = {} /\ search_results = <<>>)
               => IsError(outcome, 404)

\* C4 as amended: blank query gives 400; a failure of query classification
\* gives 500 and nothing else does; empty evidence gives 404 also when
\* retrieval itself failed; with evidence the request gives a payload even
\* when structuring or synthesis failed; a 400 or 404 is never turned into 500.
C4_FailureMapping ==
    pc = "done" =>
        /\ AllWhitespace(query) <=> IsError(outcome, 400)
        /\ "classify" \in faults <=> IsError(outcome, 500)
        /\ (~AllWhitespace(query) /\ "classify" \notin faults
                /\ search_results = <<>>) <=> IsError(outcome, 404)
        /\ search_results # <<>> <=> outcome.kind = "payload"

C4_Witness ==
    /\ pc = "done"
    /\ faults \cap {"term", "fetch", "score", "search"} # {}
    /\ IsError(outcome, 404)

\* C5: once retrieval returned passages, a failure in structuring or in
\* synthesis gives no error: the request ends with a payload whose confidence
\* is 0.0 and whose sources are empty.
C5_DegradedPayload ==
    (pc = "done" /\ faults \cap {"structure", "synthesis"} # {}) =>
        /\ outcome.kind = "payload"
        /\ outcome.confidence = 0
        /\ outcome.sources = <<>>

C5_Witness ==
    /\ pc = "done"
    /\ "structure" \in faults
    /\ "synthesis" \notin faults
    /\ outcome.kind = "payload"
    /\ outcome.response.body = "analysis_error"

\* C6: every passage _process_results returns has a score between 0.3 and
\* 1.0, and the score computed for any candidate lies in [0, 1].
C6_ScoreRange ==
    pc = "returned" =>
        /\ \A i \in DOMAIN search_results :
              /\ search_results[i].confidence >= 3000
              /\ search_results[i].confidence <= 10000
        /\ \A i \in DOMAIN detailed_results :
              /\ CalculateRelevance(Unfitted, query,
                        detailed_results[i].content).relevance >= 0
              /\ CalculateRelevance(Unfitted, query,
                        detailed_results[i].content).relevance <= 10000

C6_Witness ==
    /\ pc = "returned"
    /\ \E i \in DOMAIN search_results : search_results[i].confidence = 3000
    /\ \E i \in DOMAIN search_results : search_results[i].confidence = 10000

\* C7: _deduplicate_and_sort returns a list sorted by descending relevance in
\* which every title of the input occurs exactly once, with its highest
\* relevance; [(A,0.9),(A,0.7),(B,0.95)] becomes [(B,0.95),(A,0.9)].
C7_DedupSorted ==
    pc = "returned" =>
        /\ \A i, j \in DOMAIN unique :
              i < j => /\ unique[i].relevance >= unique[j].relevance
                       /\ unique[i].title # unique[j].title
        /\ Titles(unique) = Titles(all_results)
        /\ \A i \in DOMAIN unique :
              /\ \E k \in DOMAIN all_results : all_results[k] = unique[i]
              /\ \A k \in DOMAIN all_results :
                    all_results[k].title = unique[i].title
                        => all_results[k].relevance <= unique[i].relevance
        /\ all_results = <<Cand("A", 900), Cand("A", 700), Cand("B", 950)>>
               => unique = <<Cand("B", 950), Cand("A", 900)>>

C7_Witness ==
    /\ pc = "returned"
    /\ all_results = <<Cand("A", 900), Cand("A", 700), Cand("B", 950)>>
    /\ unique = <<Cand("B", 950), Cand("A", 900)>>

\* C8: search returns at most 3 records: only the first 3 of the sorted,
\* deduplicated list are fetched, and every passage returned is one of them
\* (a candidate dropped at fetch or at scoring is not replaced).
C8_AtMostThree ==
    LET first3 == {unique[i].title : i \in DOMAIN unique \cap 1..3} IN
    /\ Len(detailed_results) <= 3
    /\ Len(search_results) <= 3
    /\ Titles(detailed_results) \subseteq first3
    /\ pc = "retrieved" => Titles(search_results) \subseteq first3

C8_Witness ==
    /\ pc = "retrieved"
    /\ Len(unique) = 4
    /\ Len(detailed_results) = 2
    /\ Len(search_results) = 1

\* C9: whenever process returns, question_type is one of the five types and
\* there are exactly 5 alternative phrasings.
C9_TypeAndFivePhrasings ==
    pc = "returned" =>
        /\ processed_query.question_type \in
               {"DEFINITION", "FACTUAL", "PROCESS", "EXPLANATION", "COMPARISON"}
        /\ Len(processed_query.alternative_phrasings) = 5

C9_Witness ==
    /\ pc = "returned"
    /\ query # <<>>
    /\ processed_query.question_type = "COMPARISON"
    /\ Len(processed_query.alternative_phrasings) = 5

\* C10: the question type is that of the first pattern, in the order
\* DEFINITION, FACTUAL, PROCESS, EXPLANATION, COMPARISON, that matches the
\* start of the normalized query, and EXPLANATION when none matches; a query
\* starting "how to " or "why " is FACTUAL.
C10_FirstPatternWins ==
    pc = "returned" =>
        LET q == processed_query.cleaned_query
            t == processed_query.question_type
            m(i) == MatchPattern(q, Patterns[i].alts)
        IN /\ Patterns[1].q_type = "DEFINITION" /\ Patterns[2].q_type = "FACTUAL"
           /\ Patterns[3].q_type = "PROCESS" /\ Patterns[4].q_type = "EXPLANATION"
           /\ Patterns[5].q_type = "COMPARISON"
           /\ \A i \in 1..5 :
                 (m(i) /\ \A j \in 1..(i - 1) : ~m(j)) => t = Patterns[i].q_type
           /\ (\A i \in 1..5 : ~m(i)) => t = "EXPLANATION"
           /\ (StartsWith(q, <<"how", " ", "to", " ">>)
                 \/ StartsWith(q, <<"why", " ">>)) => t = "FACTUAL"

C10_Witness ==
    /\ pc = "returned"
    /\ StartsWith(processed_query.cleaned_query, <<"how", " ", "to", " ">>)
    /\ MatchPattern(processed_query.cleaned_query, Patterns[3].alts)
    /\ processed_query.question_type = "FACTUAL"

OfType(pq, t) ==
    [pq EXCEPT !.question_type = t, !.response_template = QueryTemplates[t]]

\* C12 as stated: the response to a DEFINITION query that reached synthesis
\* with content begins with an intro chosen for that type, one that the other
\* question types do not get.
C12_IntroFollowsType ==
    (/\ pc = "done"
     /\ outcome.kind = "payload"
     /\ outcome.response.kind = "explained"
     /\ processed_query.question_type = "DEFINITION") =>
        \E t \in DOMAIN QueryTemplates :
            GenerateResponse(analyzed_content, OfType(processed_query, t),
                             FALSE).response.text[1]
                # outcome.response.text[1]

\* C12 as amended: the response to a query that reached synthesis with content
\* is "Let me explain <cleaned query>:", an empty line and the main content,
\* and it is the same response for each of the five question types.
C12_IntroSameForAllTypes ==
    (/\ pc = "done"
     /\ outcome.kind = "payload"
     /\ outcome.response.kind = "explained") =>
        /\ outcome.response.text =
               << <<"Let", " ", "me", " ", "explain", " ">>
                      \o processed_query.cleaned_query \o <<":">>,
                  "\n\n", analyzed_content.main_content.kind >>
        /\ \A t \in DOMAIN QueryTemplates :
               GenerateResponse(analyzed_content, OfType(processed_query, t),
                                FALSE).response = outcome.response

C12_Witness ==
    /\ pc = "done"
    /\ outcome.kind = "payload"
    /\ outcome.response.kind = "explained"
    /\ outcome.response.body = "structured"
    /\ processed_query.question_type = "DEFINITION"
    /\ processed_query.response_template.intro
           = Phrase(<<"Here's", "what", "I", "found", "about", "{entity}:">>)
    /\ outcome.response.text[1] =
           <<"Let", " ", "me", " ", "explain", " ", "what", " ", "is", " ",
             "abacus", ":">>

\* "title - url" of the passages that have a title and a url, in their order.
TitleUrlStrings(passages) ==
    LET both == SelectSeq(passages, LAMBDA p : p.title # "" /\ p.url # "")
    IN [i \in DOMAIN both |-> both[i].title \o " - " \o both[i].url]

\* C13: when neither structuring nor synthesis failed, the sources of the
\* structurer's result and of the final response are the "title - url"
\* strings of the passages that have both a title and a url, in the passages'
\* order, no more and no fewer.
C13_SourcesPassedThrough ==
    /\ (pc \in {"generate", "done"} /\ "structure" \notin faults)
           => analyzed_content.sources = TitleUrlStrings(search_results)
    /\ (pc = "done" /\ faults = {})
           => outcome.sources = TitleUrlStrings(search_results)

C13_Witness ==
    /\ pc = "done"
    /\ faults = {}
    /\ Len(search_results) = 2
    /\ search_results[1].title = "A"
    /\ search_results[1].url = ""
    /\ search_results[1].confidence > search_results[2].confidence
    /\ outcome.sources = <<"B - https://en.wikipedia.org/wiki/B">>

\* C14: the confidence of a payload lies in [0, 1]; when structuring and
\* synthesis went through it is min(1.0, words / 500) for the words of the
\* rendered main content, as the structurer computed it; every canned result
\* (no information, structuring failed, synthesis failed) has 0.0.
C14_ConfidenceRange ==
    (pc = "done" /\ outcome.kind = "payload") =>
        /\ outcome.confidence >= 0
        /\ outcome.confidence <= 1000
        /\ (outcome.response.kind = "explained"
                /\ outcome.response.body = "structured") =>
               /\ outcome.confidence = analyzed_content.confidence
               /\ outcome.confidence =
                      IF analyzed_content.main_content.words >= 500 THEN 1000
                      ELSE (analyzed_content.main_content.words * 1000) \div 500
        /\ (outcome.response.kind # "explained"
                \/ outcome.response.body # "structured") =>
               outcome.confidence = 0

C14_Witness ==
    /\ pc = "done"
    /\ outcome.kind = "payload"
    /\ outcome.response.body = "structured"
    /\ analyzed_content.main_content.words > 500
    /\ outcome.confidence = 1000

\* C15: every block of the rendering has at most 5 bullets, however many key
\* sentences its section received; this includes the one "Information" block
\* of a rendering in which no section received any.
C15_AtMostFiveBullets ==
    \A i \in DOMAIN structured_content.blocks :
       Len(structured_content.blocks[i].bullets) <= 5

\* A section received more than 5 key sentences and its block shows 5.
C15_Witness ==
    \E i \in DOMAIN structured_content.sections :
       /\ Len(structured_content.sections[i].points) > 5
       /\ \E j \in DOMAIN structured_content.blocks :
             /\ structured_content.blocks[j].title =
                    structured_content.sections[i].title
             /\ Len(structured_content.blocks[j].bullets) = 5

\* One of the keywords occurs in the lowercased main topic or in the
\* lowercased blob that were structured.
KeywordOccurs(terms) ==
    LET topic_lower == LowerText(structured_content.main_topic)
        content_lower == LowerText(structured_content.content)
    IN \E k \in Range(terms) : In(k, topic_lower) \/ In(k, content_lower)

\* C19: the topic type of a structured blob is the first of TOOL, SCIENCE,
\* GEOGRAPHY, HISTORY one of whose keywords occurs as a substring of the
\* lowercased main topic or of the lowercased blob, and GENERAL when none does.
C19_FirstCategoryWins ==
    structured_content # NoStructure =>
        structured_content.topic_type =
            IF KeywordOccurs(tool_terms) THEN "TOOL"
            ELSE IF KeywordOccurs(science_terms) THEN "SCIENCE"
            ELSE IF KeywordOccurs(geo_terms) THEN "GEOGRAPHY"
            ELSE IF KeywordOccurs(history_terms) THEN "HISTORY"
            ELSE "GENERAL"

\* Keywords of SCIENCE, GEOGRAPHY and HISTORY occur and none of TOOL: the
\* type is SCIENCE.
C19_Witness ==
    /\ structured_content # NoStructure
    /\ ~KeywordOccurs(tool_terms)
    /\ KeywordOccurs(science_terms)
    /\ KeywordOccurs(geo_terms)
    /\ KeywordOccurs(history_terms)
    /\ structured_content.topic_type = "SCIENCE"

\* The table of the topic type that was determined.
TableOf(sc) == section_patterns(sc.topic_type)

\* A keyword of section i of the table occurs in the lowercased sentence.
SectionMatches(sc, i, point) ==
    LET point_lower == LowerText(point)
    IN \E k \in Range(TableOf(sc)[i].patterns) : In(k, point_lower)

\* The section a key sentence belongs in: the first one that matches, and
\* "Information" when none does.
HomeOf(sc, point) ==
    LET matching == {i \in DOMAIN TableOf(sc) : SectionMatches(sc, i, point)}
    IN IF matching # {} THEN Least(matching)
       ELSE CHOOSE i \in DOMAIN TableOf(sc) :
                TableOf(sc)[i].title = "Information"

\* C20: every key sentence is in exactly one section, the first section of the
\* topic's table one of whose keywords is a substring of the lowercased
\* sentence, or "Information" when there is none; the sentences of a section
\* are in their order of appearance, and the blocks are the sections that have
\* sentences, in the order of the table, each with the first sentences of its
\* section in that same order.
C20_FirstSectionInTableOrder ==
    structured_content # NoStructure =>
        LET sc == structured_content
            filled == SelectSeq(sc.sections, LAMBDA sec : sec.points # <<>>)
        IN /\ Len(sc.sections) = Len(TableOf(sc))
           /\ \A i \in DOMAIN sc.sections :
                 /\ sc.sections[i].title = TableOf(sc)[i].title
                 /\ sc.sections[i].points =
                        SelectSeq(sc.key_points,
                                  LAMBDA point : HomeOf(sc, point) = i)
           /\ IF filled = <<>>
              THEN sc.blocks = <<[title |-> "Information", bullets |-> <<>>]>>
              ELSE /\ Len(sc.blocks) = Len(filled)
                   /\ \A j \in DOMAIN filled :
                         /\ sc.blocks[j].title = filled[j].title
                         /\ Len(sc.blocks[j].bullets) <= Len(filled[j].points)
                         /\ sc.blocks[j].bullets =
                                SubSeq(filled[j].points, 1,
                                       Len(sc.blocks[j].bullets))

\* A key sentence that matches several sections is in the first of them, a
\* later sentence is rendered in an earlier block, and one section has two
\* sentences.
C20_Witness ==
    LET sc == structured_content IN
    /\ sc # NoStructure
    /\ \E k \in DOMAIN sc.key_points :
          \E i, j \in DOMAIN sc.sections :
             /\ i < j
             /\ SectionMatches(sc, i, sc.key_points[k])
             /\ SectionMatches(sc, j, sc.key_points[k])
             /\ sc.key_points[k] \in Range(sc.sections[i].points)
             /\ \A h \in 1..(i - 1) : ~SectionMatches(sc, h, sc.key_points[k])
    /\ \E k, l \in DOMAIN sc.key_points :
          /\ k < l
          /\ HomeOf(sc, sc.key_points[l]) < HomeOf(sc, sc.key_points[k])
    /\ \E j \in DOMAIN sc.blocks : Len(sc.blocks[j].bullets) >= 2

\* The positions of the tagged tokens that _extract_entities keeps.
KeptTokens ==
    {i \in DOMAIN pos_tagged :
        /\ pos_tagged[i].tag \in {"NN", "NNS", "NNP", "NNPS"}
        /\ pos_tagged[i].word \notin StopWords
        /\ Len(pos_tagged[i].word) > 2}

\* C16: entities are exactly the words of the tokens tagged as nouns that are
\* no stopwords and have more than 2 characters, in the order of the tokens,
\* a word as often as it occurs.
C16_EntitiesInOrderWithDuplicates ==
    pc = "returned" =>
        /\ Len(processed_query.entities) = Cardinality(KeptTokens)
        /\ \A k \in DOMAIN processed_query.entities :
              processed_query.entities[k] = pos_tagged[Kth(KeptTokens, k)].word

\* "the cat sat on the cat mat" with cat, cat, mat tagged as nouns, and "the"
\* tagged as a noun too.
C16_Witness ==
    /\ pc = "returned"
    /\ Len(pos_tagged) = 7
    /\ pos_tagged[1].tag = "NN"
    /\ processed_query.entities = <<"cat", "cat", "mat">>

\* C18: the passages _process_results returns are in descending order of
\* score: of two adjacent passages the earlier one's score is at least the
\* later one's, in whatever order of seed relevance the candidates came.
C18_SortedByScore ==
    pc = "returned" =>
        \A i \in 1..(Len(search_results) - 1) :
           search_results[i].confidence >= search_results[i + 1].confidence

\* The candidate with the lower seed relevance has the higher score and comes
\* first.
C18_Witness ==
    /\ pc = "returned"
    /\ Len(search_results) >= 2
    /\ search_results[1].relevance < search_results[2].relevance
    /\ search_results[1].confidence > search_results[2].confidence

\* The calls made for the term at position k of search_terms.
CallsOf(k) == SelectSeq(calls, LAMBDA c : c.term = k)

\* C17: the calls of one retrieval are those of the 6 search terms (the
\* cleaned query and the 5 alternative phrasings), term after term; for each
\* term there is first the one lookup of the term, and only when that finds
\* no page or a disambiguation page come the searches of the variants 1 to 4,
\* in that order, each with limit 5 and followed by the lookups of its hits,
\* at most 5; a failed call is the last of its term, and without a failure
\* all 4 variants are searched.
C17_CallsWithinTermsAndVariants ==
    LET terms == SearchTerms(processed_query) IN
    /\ Len(terms) = 6
    /\ terms[1] = processed_query.cleaned_query
    /\ \A i \in 1..5 : terms[i + 1] = processed_query.alternative_phrasings[i]
    /\ pc = "returned" => term_idx = 6
    /\ \A i \in DOMAIN calls :
          /\ calls[i].term \in 1..term_idx
          /\ calls[i].text = terms[calls[i].term]
          /\ i > 1 => calls[i - 1].term <= calls[i].term
    /\ \A k \in 1..term_idx :
          LET cs == CallsOf(k) IN
          /\ cs # <<>>
          /\ cs[1].op = "page" /\ cs[1].variant = 0 /\ cs[1].hit = 0
          /\ Len(cs) > 1 => cs[1].st \in {"missing", "disambiguation"}
          /\ \A i \in 2..Len(cs) :
                /\ cs[i].variant \in 1..4
                /\ cs[i - 1].st # "raise"
                /\ cs[i].op = "search" =>
                      /\ cs[i].srlimit = 5
                      /\ cs[i].variant = cs[i - 1].variant + 1
                /\ cs[i].op = "page" =>
                      /\ cs[i].variant = cs[i - 1].variant
                      /\ cs[i].hit = cs[i - 1].hit + 1
                      /\ cs[i].hit <= 5
          /\ (cs[1].st \in {"missing", "disambiguation"}
                 /\ cs[Len(cs)].st # "raise") =>
                {cs[i].variant : i \in {j \in DOMAIN cs : cs[j].op = "search"}}
                    = 1..4

\* All 6 terms are done: one was resolved by its lookup alone, for another all
\* 4 variants were searched, one of them with 5 hits looked up.
C17_Witness ==
    /\ pc = "returned"
    /\ \E k \in 1..6 : Len(CallsOf(k)) = 1 /\ CallsOf(k)[1].st = "ok"
    /\ \E k \in 1..6 :
          /\ Cardinality({i \in DOMAIN CallsOf(k) :
                             CallsOf(k)[i].op = "search"}) = 4
          /\ \E i \in DOMAIN CallsOf(k) :
                CallsOf(k)[i].op = "page" /\ CallsOf(k)[i].hit = 5
    /\ \E k \in 1..6 : CallsOf(k)[Len(CallsOf(k))].st = "raise"

\* The paragraphs of the candidate that are not blank.
GivenParagraphs ==
    SelectSeq(detailed_results[1].content.paragraphs,
              LAMBDA p : WordsOf(p.sentences) > 0)

\* The sentences of the candidate that have more than 5 words.
LongSentences ==
    SelectSeq(SentencesOf(detailed_results[1].content.paragraphs),
              LAMBDA sentence : sentence.words > 5)

\* ids names the n units of greatest similarity, the greatest first.
IsTop(ids, units, n) ==
    /\ Len(ids) = IF Len(units) < n THEN Len(units) ELSE n
    /\ \A i \in DOMAIN ids : \E u \in Range(units) : u.id = ids[i]
    /\ \A i \in DOMAIN ids, u, w \in Range(units) :
          (u.id = ids[i] /\ w.id \notin Range(ids)) => w.sim < u.sim
    /\ \A i, j \in DOMAIN ids, u, w \in Range(units) :
          (i < j /\ u.id = ids[i] /\ w.id = ids[j]) => u.sim > w.sim

\* The words of the 3 paragraphs of greatest similarity.
TopParagraphWords ==
    LET top == {p \in Range(GivenParagraphs) :
                   Cardinality({q \in Range(GivenParagraphs) : q.sim > p.sim})
                       < 3}
        words == [p \in top |-> WordsOf(p.sentences)]
        F[S \in SUBSET top] ==
            IF S = {} THEN 0
            ELSE LET p == CHOOSE x \in S : TRUE IN words[p] + F[S \ {p}]
    IN F[top]

TitleSeq(s) == [i \in DOMAIN s |-> s[i].title]

\* The page lookups that found a usable page, and the fetches, in call order.
UsablePageCalls ==
    SelectSeq(calls, LAMBDA c : c.op = "page" /\ c.st = "ok")

FetchCalls == SelectSeq(calls, LAMBDA c : c.op = "fetch")

\* C22: a failure while one search term is processed never aborts retrieval:
\* the candidates are exactly the usable pages looked up so far, those of
\* earlier terms and those found for a failing term before its failure
\* included, and every term is processed whatever failed before it; a failed
\* fetch or a failed scoring removes only the candidate it happened on.
C22_FailureSkipsOnlyItsOwnStep ==
    /\ \A k \in 1..term_idx : CallsOf(k) # <<>>
    /\ pc = "search" => TitleSeq(all_results) = TitleSeq(UsablePageCalls)
    /\ pc # "search" =>
          /\ term_idx = Len(SearchTerms(processed_query))
          /\ Titles(unique) = Titles(UsablePageCalls)
    /\ pc \in {"rank", "retrieved"} =>
          /\ TitleSeq(FetchCalls) = TitleSeq(Take(unique, MaxFetched))
          /\ TitleSeq(detailed_results) =
                TitleSeq(SelectSeq(FetchCalls, LAMBDA c : c.st = "ok"))
    /\ pc = "retrieved" =>
          Titles(search_results) =
             {detailed_results[i].title : i \in
                 {j \in DOMAIN detailed_results :
                     detailed_results[j].content.vec # "raise"}}

\* A term failed after it had found a page, a later term found another one,
\* one fetch and one scoring failed, and the remaining candidate is returned.
C22_Witness ==
    /\ pc = "retrieved"
    /\ \E i, j \in DOMAIN calls :
          /\ calls[i].op = "page" /\ calls[i].st = "raise" /\ calls[i].hit = 2
          /\ calls[j].op = "page" /\ calls[j].st = "ok"
          /\ calls[j].term > calls[i].term
    /\ \E c \in DOMAIN FetchCalls : FetchCalls[c].st = "raise"
    /\ \E d \in DOMAIN detailed_results :
          detailed_results[d].content.vec = "raise"
    /\ "C" \in Titles(search_results)
    /\ Len(search_results) = 1

\* The fetched candidates that the ranker's output lacks.
Absent ==
    {i \in DOMAIN detailed_results :
        detailed_results[i].title \notin Titles(search_results)}

Blob == JoinContent(Documents(search_results))

\* C24: for every non-empty blob the rendering of the structurer has at
\* least one section header ("Information:" alone when there is no key
\* sentence), so unless a step raised the main content is the rendering,
\* never the fallback that quotes the raw blob, and the confidence is above
\* 0; confidence 0 comes with the canned no-information and error results
\* only.
C24_NonEmptyBlobHasHeader ==
    pc = "generate" =>
       /\ (Documents(search_results) # <<>> /\ "analyze" \notin faults) =>
             /\ Blob # ""
             /\ structured_content.blocks # <<>>
             /\ structured_content.key_points = <<>> =>
                   structured_content.blocks =
                      <<[title |-> "Information", bullets |-> <<>>]>>
             /\ RenderedWordCount(structured_content.blocks) >= 1
             /\ analyzed_content.main_content.kind = "structured"
             /\ analyzed_content.confidence > 0
       /\ analyzed_content.confidence = 0 =>
             analyzed_content \in {NoInfo, AnalysisError}
       /\ Documents(search_results) = <<>> =>
             analyzed_content \in {NoInfo, AnalysisError}

\* A blank blob is rendered as the header "Information:" alone, with
\* confidence 1/500.
C24_Witness ==
    /\ pc = "generate"
    /\ "analyze" \notin faults
    /\ Blob # "" /\ WordCount(Blob) = 0
    /\ structured_content.blocks =
          <<[title |-> "Information", bullets |-> <<>>]>>
    /\ analyzed_content.main_content.kind = "structured"
    /\ analyzed_content.confidence = 2

====
